---- MODULE Spec2Model ----
(***************************************************************************)
(* timeseries-expr: the two compile/evaluate pipelines of the repository.  *)
(*                                                                         *)
(*   tsexpr::compile (src/src/parser.cpp) lowers a statement to a Program  *)
(*   that Program::execute (include/tsexpr/program.hpp) runs against a     *)
(*   backend; ts::expr::compile / eval_rpn / execute_assignment            *)
(*   (src/src/expr.cpp) keep the postfix tokens and evaluate them against  *)
(*   an Env of TimeSeries.                                                 *)
(*                                                                         *)
(* The input text is held as the sequence of tokens the lexer delivers.    *)
(* One behaviour takes one input through tsexpr::compile, Program::execute *)
(* and then through ts::expr::execute_assignment, one loop iteration (one  *)
(* token, one instruction) per step.  Values are kept as a shape (scalar   *)
(* or series of a length) and the term that computes them, so that two     *)
(* different groupings of the same operands are different values.          *)
(*                                                                         *)
(* SpecTwo runs two executions of one compiled Program side by side, each  *)
(* with its own operand stack and backend; SpecLexer drives the two lexers *)
(* one call of next() or peek() at a time.                                 *)
(***************************************************************************)
EXTENDS Integers, Sequences, FiniteSets, TLC

VARIABLES
    input,      \* the tokens of the input text, in textual order
    pc,         \* which function of the pipelines is running
    parser,     \* tsexpr: the locals of compile and to_rpn
    program,    \* tsexpr: Program::code
    exec,       \* tsexpr: the locals of Program::execute
    backend,    \* tsexpr: Backend::vars
    backend0,   \* Backend::vars as it was when execute was called
    thrownP,    \* the exception that left the tsexpr pipeline
    cmp,        \* ts::expr: the locals of compile
    compiled,   \* ts::expr: the Compiled that compile returned
    eval,       \* ts::expr: the locals of eval_rpn
    env,        \* ts::expr: the Env passed to execute_assignment
    env0,       \* env as it was when execute_assignment was called
    thrownE,    \* the exception that left execute_assignment
    runs,       \* two executions of one Program: each one's locals and backend
    lx          \* two lexers driven call by call, and what they returned

vars == <<input, pc, parser, program, exec, backend, backend0, thrownP,
          cmp, compiled, eval, env, env0, thrownE, runs, lx>>

\* ------------------------------------------------------------------ bounds

\* Every token sequence of at most MaxLen tokens is an input.
MaxLen == 3
\* Every `z = e` with e of at most MaxExprLen tokens is an input.
MaxExprLen == 4
\* Every `z = e` with e of at most MaxArithLen operand/operator tokens is one.
MaxArithLen == 5
\* SpecTwo: every `z = e` with e of at most MaxTwoLen tokens that compiles.
MaxTwoLen == 3
\* SpecLexer: every text of at most MaxLexLen tokens,
MaxLexLen == 3
\* and at most MaxCalls calls of each lexer.
MaxCalls == 4

\* ------------------------------------------------------------------ tokens

Last(s) == s[Len(s)]
Front(s) == SubSeq(s, 1, Len(s) - 1)

\* tsexpr::Token {kind, text, number}
Tok(k, s, n) == [kind |-> k, text |-> s, number |-> n]
Ident(s) == Tok("Ident", s, 0)
Number(n) == Tok("Number", "", n)
Plus == Tok("Plus", "", 0)
Minus == Tok("Minus", "", 0)
Star == Tok("Star", "", 0)
Slash == Tok("Slash", "", 0)
LParen == Tok("LParen", "", 0)
RParen == Tok("RParen", "", 0)
Comma == Tok("Comma", "", 0)
Assign == Tok("Assign", "", 0)
EndTok == Tok("End", "", 0)

\* tsexpr::Lexer::next, on the token sequence: the token at position i (End
\* once the input is used up) and the position after it.
LexerNext(i) ==
    IF i >= Len(input) THEN [tok |-> EndTok, i_ |-> i]
    ELSE [tok |-> input[i + 1], i_ |-> i + 1]

\* ------------------------------------------------- tsexpr: shunting-yard

precedence(k) ==
    CASE k = "Neg" -> 4
      [] k \in {"Star", "Slash"} -> 3
      [] k \in {"Plus", "Minus"} -> 2
      [] OTHER -> 0

is_right_assoc(k) == k = "Neg"

is_op(k) == k \in {"Plus", "Minus", "Star", "Slash", "Neg"}

\* pop_it without the equal-precedence pop: binary operators would group
\* right to left
pop_it_strict(topk, curk) == precedence(topk) > precedence(curk)

\* bool pop_it = is_right_assoc(curk) ? (ptop > pcur) : (ptop >= pcur)
pop_it(topk, curk) ==
    IF is_right_assoc(curk) THEN precedence(topk) > precedence(curk)
    ELSE precedence(topk) >= precedence(curk)

\* while (!opstack.empty() && opstack.back().kind != LParen) { emit; pop }
RECURSIVE PopToLParen(_, _)
PopToLParen(out, ops) ==
    IF ops # <<>> /\ Last(ops).kind # "LParen"
    THEN PopToLParen(Append(out, Last(ops)), Front(ops))
    ELSE [output |-> out, opstack |-> ops]

\* while (!opstack.empty() && is_op(opstack.back().kind)) { if (!pop_it) break; emit; pop }
RECURSIVE PopOperators(_, _, _)
PopOperators(out, ops, curk) ==
    IF ops # <<>> /\ is_op(Last(ops).kind) /\ pop_it(Last(ops).kind, curk)
    THEN PopOperators(Append(out, Last(ops)), Front(ops), curk)
    ELSE [output |-> out, opstack |-> ops]

\* fnstack.back().saw_any_arg = true, when there is a frame
MarkSawAnyArg(fs) ==
    IF fs = <<>> THEN fs
    ELSE [fs EXCEPT ![Len(fs)].saw_any_arg = TRUE]

\* int argc = frame.saw_any_arg ? (frame.argc + 1) : 0
FrameArgc(frame) == IF frame.saw_any_arg THEN frame.argc + 1 ELSE 0

Throw(s, msg) == [s EXCEPT !.what = msg]

\* a next_token() that hands the same token out again
AdvanceStuck(s) == s

\* t = next_token()
Advance(s) ==
    LET n == LexerNext(s.i_) IN [s EXCEPT !.t = n.tok, !.i_ = n.i_]

\* compile's head without the check of '='
CompileHeadAnySecond ==
    LET lhs == LexerNext(0)
        eq == LexerNext(lhs.i_)
        first == LexerNext(eq.i_)
        s == [i_ |-> first.i_, lhs |-> lhs.tok, t |-> first.tok,
              output |-> <<>>, opstack |-> <<>>, fnstack |-> <<>>,
              expect_operand |-> TRUE, what |-> ""]
    IN  IF lhs.tok.kind # "Ident"
            THEN Throw(s, "Expected assignment target identifier at start")
        ELSE IF first.tok.kind = "End"
            THEN Throw(s, "Expected expression after '='")
        ELSE s

\* compile, up to the call of to_rpn
CompileHead ==
    LET lhs == LexerNext(0)
        eq == LexerNext(lhs.i_)
        first == LexerNext(eq.i_)
        s == [i_ |-> first.i_, lhs |-> lhs.tok, t |-> first.tok,
              output |-> <<>>, opstack |-> <<>>, fnstack |-> <<>>,
              expect_operand |-> TRUE, what |-> ""]
    IN  IF lhs.tok.kind # "Ident"
            THEN Throw(s, "Expected assignment target identifier at start")
        ELSE IF eq.tok.kind # "Assign"
            THEN Throw(s, "Expected '=' after assignment target")
        ELSE IF first.tok.kind = "End"
            THEN Throw(s, "Expected expression after '='")
        ELSE s

\* an Ident branch that pushes the function marker without a frame
RpnIdentNoFrame(s) ==
    LET peek == LexerNext(s.i_) IN
    IF peek.tok.kind = "LParen"
    THEN Advance([s EXCEPT
            !.opstack = s.opstack \o <<Tok("Func", s.t.text, 0), peek.tok>>,
            !.expect_operand = TRUE,
            !.i_ = peek.i_])
    ELSE [s EXCEPT
            !.output = Append(s.output, s.t),
            !.expect_operand = FALSE,
            !.fnstack = MarkSawAnyArg(s.fnstack),
            !.t = peek.tok,
            !.i_ = peek.i_]

\* to_rpn: if (t.kind == TokKind::Ident) { ... }
RpnIdent(s) ==
    LET peek == LexerNext(s.i_) IN
    IF peek.tok.kind = "LParen"
    THEN Advance([s EXCEPT
            !.opstack = s.opstack \o <<Tok("Func", s.t.text, 0), peek.tok>>,
            !.fnstack = Append(s.fnstack,
                 [name |-> s.t.text, argc |-> 0, saw_any_arg |-> FALSE]),
            !.expect_operand = TRUE,
            !.i_ = peek.i_])
    ELSE [s EXCEPT
            !.output = Append(s.output, s.t),
            !.expect_operand = FALSE,
            !.fnstack = MarkSawAnyArg(s.fnstack),
            !.t = peek.tok,
            !.i_ = peek.i_]

\* a Number branch that puts the number at the front of the output
RpnNumberFirst(s) ==
    Advance([s EXCEPT
        !.output = <<s.t>> \o s.output,
        !.expect_operand = FALSE,
        !.fnstack = MarkSawAnyArg(s.fnstack)])

\* to_rpn: if (t.kind == TokKind::Number) { ... }
RpnNumber(s) ==
    Advance([s EXCEPT
        !.output = Append(s.output, s.t),
        !.expect_operand = FALSE,
        !.fnstack = MarkSawAnyArg(s.fnstack)])

\* to_rpn: if (t.kind == TokKind::LParen) { ... }
RpnLParen(s) ==
    Advance([s EXCEPT
        !.opstack = Append(s.opstack, s.t),
        !.expect_operand = TRUE])

\* a comma branch that also emits the comma to the output
RpnCommaEmitted(s) ==
    LET r == PopToLParen(s.output, s.opstack)
        s1 == [s EXCEPT !.output = Append(r.output, s.t), !.opstack = r.opstack]
    IN  IF r.opstack = <<>> THEN Throw(s1, "Comma not within function call")
        ELSE IF s.fnstack = <<>>
            THEN Throw(s1, "Internal error: comma with no function frame")
        ELSE Advance([s1 EXCEPT
                !.fnstack[Len(s.fnstack)].argc = @ + 1,
                !.expect_operand = TRUE])

\* to_rpn: if (t.kind == TokKind::Comma) { ... }
RpnComma(s) ==
    LET r == PopToLParen(s.output, s.opstack)
        s1 == [s EXCEPT !.output = r.output, !.opstack = r.opstack]
    IN  IF r.opstack = <<>> THEN Throw(s1, "Comma not within function call")
        ELSE IF s.fnstack = <<>>
            THEN Throw(s1, "Internal error: comma with no function frame")
        ELSE Advance([s1 EXCEPT
                !.fnstack[Len(s.fnstack)].argc = @ + 1,
                !.expect_operand = TRUE])

\* to_rpn: if (t.kind == TokKind::RParen) { ... }
RpnRParen(s) ==
    LET r == PopToLParen(s.output, s.opstack)
        s1 == [s EXCEPT !.output = r.output, !.opstack = r.opstack]
    IN  IF r.opstack = <<>> THEN Throw(s1, "Mismatched ')'")
        ELSE
        LET ops1 == Front(r.opstack) IN    \* pop '('
        IF ops1 # <<>> /\ Last(ops1).kind = "Func"
        THEN
            LET fn == Last(ops1)
                s2 == [s1 EXCEPT !.opstack = Front(ops1)]
            IN  IF s.fnstack = <<>>
                THEN Throw(s2, "Internal error: function close with no frame")
                ELSE
                LET frame == Last(s.fnstack)
                    argc == FrameArgc(frame)
                IN  Advance([s2 EXCEPT
                        !.fnstack = MarkSawAnyArg(Front(s.fnstack)),
                        !.output = Append(r.output, [fn EXCEPT !.number = argc]),
                        !.expect_operand = FALSE])
        ELSE Advance([s1 EXCEPT !.opstack = ops1, !.expect_operand = FALSE])

\* if (t.kind == TokKind::Minus && expect_operand) t.kind = TokKind::Neg;
Disambiguate(t, expect_operand) ==
    IF t.kind = "Minus" /\ expect_operand THEN [t EXCEPT !.kind = "Neg"] ELSE t

\* to_rpn: if (is_op(t.kind)) { ... }
RpnOperator(s) ==
    LET t == Disambiguate(s.t, s.expect_operand)
        r == PopOperators(s.output, s.opstack, t.kind)
    IN  Advance([s EXCEPT
            !.output = r.output,
            !.opstack = Append(r.opstack, t),
            !.expect_operand = TRUE])

\* to_rpn: throw ParseError("Unexpected token in expression")
RpnUnexpected(s) == Throw(s, "Unexpected token in expression")

\* a drain that emits whatever is left on the operator stack
RECURSIVE DrainUnchecked(_)
DrainUnchecked(s) ==
    IF s.opstack = <<>> THEN s
    ELSE DrainUnchecked([s EXCEPT !.output = Append(s.output, Last(s.opstack)),
                                  !.opstack = Front(s.opstack)])

\* to_rpn, after the loop: drain the operator stack
RECURSIVE Drain(_)
Drain(s) ==
    IF s.opstack = <<>>
    THEN IF s.fnstack # <<>> THEN Throw(s, "Mismatched function call") ELSE s
    ELSE IF Last(s.opstack).kind = "LParen" THEN Throw(s, "Mismatched '('")
    ELSE IF Last(s.opstack).kind = "Func" THEN Throw(s, "Mismatched function call")
    ELSE Drain([s EXCEPT !.output = Append(s.output, Last(s.opstack)),
                         !.opstack = Front(s.opstack)])

\* tsexpr::Instr {op, text, number, argc}
Instr(o, s, n, a) == [op |-> o, text |-> s, number |-> n, argc |-> a]

LowerKinds == {"Number", "Ident", "Neg", "Plus", "Minus", "Star", "Slash", "Func"}

\* compile: the switch of the lowering loop, for one postfix token
LowerToken(t) ==
    CASE t.kind = "Number" -> Instr("PushNum", "", t.number, 0)
      [] t.kind = "Ident" -> Instr("PushVar", t.text, 0, 0)
      [] t.kind = "Neg" -> Instr("Neg", "", 0, 0)
      [] t.kind = "Plus" -> Instr("Add", "", 0, 0)
      [] t.kind = "Minus" -> Instr("Sub", "", 0, 0)
      [] t.kind = "Star" -> Instr("Mul", "", 0, 0)
      [] t.kind = "Slash" -> Instr("Div", "", 0, 0)
      [] t.kind = "Func" -> Instr("Call", t.text, 0, t.number)
      [] OTHER -> Instr("Unsupported", "", 0, 0)

\* a lowering that puts the Store before the expression
LowerStoreFirst(rpn, lhs) ==
    <<Instr("Store", lhs.text, 0, 0)>> \o [k \in 1..Len(rpn) |-> LowerToken(rpn[k])]

\* compile: the lowering loop and the trailing Store
Lower(rpn, lhs) ==
    [k \in 1..Len(rpn) |-> LowerToken(rpn[k])] \o <<Instr("Store", lhs.text, 0, 0)>>

LowerThrows(rpn) == \E k \in 1..Len(rpn) : rpn[k].kind \notin LowerKinds

\* the value of x, computed once
Once(x) == CHOOSE v \in {x} : TRUE

\* to_rpn as one function: the loop, then the drain
RECURSIVE to_rpn(_)
to_rpn(s0) ==
    LET s == Once(s0) IN
    IF s.what # "" THEN s
    ELSE IF s.t.kind = "End" THEN Drain(s)
    ELSE IF s.t.kind = "Ident" THEN to_rpn(RpnIdent(s))
    ELSE IF s.t.kind = "Number" THEN to_rpn(RpnNumber(s))
    ELSE IF s.t.kind = "LParen" THEN to_rpn(RpnLParen(s))
    ELSE IF s.t.kind = "Comma" THEN to_rpn(RpnComma(s))
    ELSE IF s.t.kind = "RParen" THEN to_rpn(RpnRParen(s))
    ELSE IF is_op(Disambiguate(s.t, s.expect_operand).kind) THEN to_rpn(RpnOperator(s))
    ELSE RpnUnexpected(s)

\* tsexpr::compile as one function of the input: the Program's code, or the
\* message of the ParseError
compile ==
    LET s0 == Once(CompileHead)
        s == Once(IF s0.what # "" THEN s0 ELSE to_rpn(s0))
    IN  IF s.what # "" THEN [code |-> <<>>, what |-> s.what]
        ELSE IF LowerThrows(s.output)
            THEN [code |-> <<>>, what |-> "Unsupported token in RPN compilation"]
        ELSE [code |-> Lower(s.output, s.lhs), what |-> ""]

\* ------------------------------------------------------- toy backend

\* Value = std::variant<Series, double>: the shape and the term computing it
Scalar(t) == [shape |-> "double", n |-> 0, term |-> t]
Series(n, t) == [shape |-> "Series", n |-> n, term |-> t]
NoValue == Scalar(<<"none">>)

Returns(v) == [throws |-> FALSE, v |-> v]
Throws == [throws |-> TRUE, v |-> NoValue]

EmptyMap == [x \in {} |-> NoValue]

\* Backend::load_var
load_var(varmap, name) ==
    IF name \notin DOMAIN varmap THEN Throws ELSE Returns(varmap[name])

\* Backend::store_var: vars[name] = v
store_var(varmap, name, v) ==
    [x \in DOMAIN varmap \cup {name} |-> IF x = name THEN v ELSE varmap[x]]

\* Backend::make_number
make_number(x) == Scalar(<<"lit", x>>)

\* Backend::neg
neg(a) == [a EXCEPT !.term = <<"neg", a.term>>]

\* the arithmetic operator an Op (or an operator token) stands for
OpSymbol(op) ==
    CASE op \in {"Add", "Plus"} -> "+"
      [] op \in {"Sub", "Minus"} -> "-"
      [] op \in {"Mul", "Star"} -> "*"
      [] op \in {"Div", "Slash"} -> "/"

\* Backend::binary
binary(op, a, b) ==
    LET t == <<OpSymbol(op), a.term, b.term>> IN
    IF a.shape = "double" /\ b.shape = "double" THEN Returns(Scalar(t))
    ELSE IF a.shape = "Series" /\ b.shape = "Series"
        THEN IF a.n # b.n THEN Throws ELSE Returns(Series(a.n, t))
    ELSE IF a.shape = "Series" THEN Returns(Series(a.n, t))
    ELSE Returns(Series(b.n, t))

\* Backend::call
call(fn, args) ==
    IF fn = "sumproduct"
    THEN IF Len(args) # 2 THEN Throws
         ELSE IF args[1].shape = "Series" /\ args[2].shape = "Series"
                  /\ args[1].n # args[2].n THEN Throws
         ELSE Returns(Scalar(<<"sumproduct", args[1].term, args[2].term>>))
    ELSE Throws

\* ------------------------------------------------------ Program::execute

Step(st, varmap, thrown) == [st |-> st, vars |-> varmap, thrown |-> thrown]
Result(v, thrown) == [v |-> v, thrown |-> thrown]

\* case Op::PushVar
ExecPushVar(ins, st, varmap) ==
    LET r == load_var(varmap, ins.text) IN
    IF r.throws THEN Step(st, varmap, "runtime_error")
    ELSE Step(Append(st, r.v), varmap, "")

\* case Op::PushNum
ExecPushNum(ins, st, varmap) == Step(Append(st, make_number(ins.number)), varmap, "")

\* case Op::Neg
ExecNeg(ins, st, varmap) ==
    IF st = <<>> THEN Step(st, varmap, "EvalError")
    ELSE Step(Append(Front(st), neg(Last(st))), varmap, "")

\* a binary instruction that takes the top of the stack as the left operand
ExecBinarySwapped(ins, st, varmap) ==
    IF Len(st) < 2 THEN Step(<<>>, varmap, "EvalError")
    ELSE LET a == st[Len(st)]
             b == st[Len(st) - 1]
             r == binary(ins.op, a, b)
         IN  IF r.throws THEN Step(SubSeq(st, 1, Len(st) - 2), varmap, "runtime_error")
             ELSE Step(Append(SubSeq(st, 1, Len(st) - 2), r.v), varmap, "")

\* case Op::Add, Sub, Mul, Div: Value b = pop(); Value a = pop();
ExecBinary(ins, st, varmap) ==
    IF Len(st) < 2 THEN Step(<<>>, varmap, "EvalError")
    ELSE LET b == st[Len(st)]
             a == st[Len(st) - 1]
             r == binary(ins.op, a, b)
         IN  IF r.throws THEN Step(SubSeq(st, 1, Len(st) - 2), varmap, "runtime_error")
             ELSE Step(Append(SubSeq(st, 1, Len(st) - 2), r.v), varmap, "")

\* a call that fills args from the top of the stack down: args[0] is the top
ExecCallReversed(ins, st, varmap) ==
    IF ins.argc < 0 THEN Step(st, varmap, "EvalError")
    ELSE IF ins.argc > Len(st) THEN Step(st, varmap, "EvalError")
    ELSE LET rest == SubSeq(st, 1, Len(st) - ins.argc)
             args == [k \in 1..ins.argc |-> st[Len(st) + 1 - k]]
             r == call(ins.text, args)
         IN  IF r.throws THEN Step(rest, varmap, "runtime_error")
             ELSE Step(Append(rest, r.v), varmap, "")

\* case Op::Call
ExecCall(ins, st, varmap) ==
    IF ins.argc < 0 THEN Step(st, varmap, "EvalError")
    ELSE IF ins.argc > Len(st) THEN Step(st, varmap, "EvalError")
    ELSE LET rest == SubSeq(st, 1, Len(st) - ins.argc)
             args == SubSeq(st, Len(st) - ins.argc + 1, Len(st))
             r == call(ins.text, args)
         IN  IF r.throws THEN Step(rest, varmap, "runtime_error")
             ELSE Step(Append(rest, r.v), varmap, "")

\* a store that replaces the whole map by the one binding
ExecStoreFresh(ins, st, varmap) ==
    IF st = <<>> THEN Step(st, varmap, "EvalError")
    ELSE Step(Front(st), store_var(EmptyMap, ins.text, Last(st)), "")

\* case Op::Store
ExecStore(ins, st, varmap) ==
    IF st = <<>> THEN Step(st, varmap, "EvalError")
    ELSE Step(Front(st), store_var(varmap, ins.text, Last(st)), "")

\* Program::execute: the switch on ins.op
ExecInstr(ins, st, varmap) ==
    CASE ins.op = "PushVar" -> ExecPushVar(ins, st, varmap)
      [] ins.op = "PushNum" -> ExecPushNum(ins, st, varmap)
      [] ins.op = "Neg" -> ExecNeg(ins, st, varmap)
      [] ins.op \in {"Add", "Sub", "Mul", "Div"} -> ExecBinary(ins, st, varmap)
      [] ins.op = "Call" -> ExecCall(ins, st, varmap)
      [] ins.op = "Store" -> ExecStore(ins, st, varmap)

\* Program::execute as one function: the backend variables it leaves and
\* the exception it ends with, from instruction ip on
RECURSIVE execute(_, _, _, _)
execute(code, ip, st, varmap) ==
    IF ip > Len(code) THEN [vars |-> varmap, thrown |-> ""]
    ELSE LET r == Once(ExecInstr(code[ip], st, varmap)) IN
         IF r.thrown # "" THEN [vars |-> r.vars, thrown |-> r.thrown]
         ELSE execute(code, ip + 1, r.st, r.vars)

\* --------------------------------------------------- ts::expr: lexer

\* ts::expr::Token {kind, text, number, arity}
ExprTok(t) == [kind |-> t.kind, text |-> t.text, number |-> t.number, arity |-> 0]

\* Lexer::next_impl, on the token sequence
next_impl(lex) ==
    LET n == LexerNext(lex.i_) IN
    [tok |-> ExprTok(n.tok), lex |-> [lex EXCEPT !.i_ = n.i_]]

\* Lexer::peek: if (!lookahead_) lookahead_ = next_impl(); return *lookahead_;
peek(lex) ==
    IF lex.lookahead_ = <<>>
    THEN LET n == next_impl(lex) IN
         [tok |-> n.tok, lex |-> [n.lex EXCEPT !.lookahead_ = <<n.tok>>]]
    ELSE [tok |-> lex.lookahead_[1], lex |-> lex]

\* Lexer::next
next(lex) ==
    IF lex.lookahead_ # <<>>
    THEN [tok |-> lex.lookahead_[1], lex |-> [lex EXCEPT !.lookahead_ = <<>>]]
    ELSE next_impl(lex)

\* ------------------------------------------- ts::expr: shunting-yard

expr_precedence(k) ==
    CASE k = "Neg" -> 3
      [] k \in {"Star", "Slash"} -> 2
      [] k \in {"Plus", "Minus"} -> 1
      [] OTHER -> 0

is_right_associative(k) == k = "Neg"

is_operator(k) == k \in {"Plus", "Minus", "Star", "Slash", "Neg"}

is_function(k) == k = "Func"

\* if (is_right_associative(curk)) pop_it = ptop > pcur; else pop_it = ptop >= pcur;
expr_pop_it(topk, curk) ==
    IF is_right_associative(curk) THEN expr_precedence(topk) > expr_precedence(curk)
    ELSE expr_precedence(topk) >= expr_precedence(curk)

\* while (!opstack.empty() && is_operator(opstack.back().kind)) { ... }
RECURSIVE ExprPopOperators(_, _, _)
ExprPopOperators(out, ops, curk) ==
    IF ops # <<>> /\ is_operator(Last(ops).kind) /\ expr_pop_it(Last(ops).kind, curk)
    THEN ExprPopOperators(Append(out, Last(ops)), Front(ops), curk)
    ELSE [output |-> out, opstack |-> ops]

\* RParen: while (!opstack.empty()) { pop; if LParen { found_lparen = true; break; } emit }
RECURSIVE PopThroughLParen(_, _)
PopThroughLParen(out, ops) ==
    IF ops = <<>> THEN [output |-> out, opstack |-> ops, found_lparen |-> FALSE]
    ELSE IF Last(ops).kind = "LParen"
        THEN [output |-> out, opstack |-> Front(ops), found_lparen |-> TRUE]
    ELSE PopThroughLParen(Append(out, Last(ops)), Front(ops))

\* the top frame sees the start of an argument:
\* if (!func_stack.empty() && func_stack.back().depth == 1 && expect_operand) saw_expr = true
MarkSawExpr(fs, expect_operand) ==
    IF fs # <<>> /\ Last(fs).depth = 1 /\ expect_operand
    THEN [fs EXCEPT ![Len(fs)].saw_expr = TRUE]
    ELSE fs

\* compile, up to its loop
ExprCompileHead ==
    LET lhs == next([i_ |-> 0, lookahead_ |-> <<>>])
        eq == next(lhs.lex)
        s == [lex |-> eq.lex, lhs |-> lhs.tok, output |-> <<>>, opstack |-> <<>>,
              func_stack |-> <<>>, expect_operand |-> TRUE, what |-> ""]
    IN  IF lhs.tok.kind # "Ident"
            THEN Throw(s, "Expected assignment target identifier at start")
        ELSE IF eq.tok.kind # "Assign"
            THEN Throw(s, "Expected '=' after assignment target")
        ELSE s

\* compile: if (t.kind == TokKind::Ident) { ... }; s.lex is past t
CmpIdent(s, t) ==
    LET pk == peek(s.lex) IN
    IF pk.tok.kind = "LParen"
    THEN LET lp == next(pk.lex) IN
         [s EXCEPT
            !.lex = lp.lex,
            !.opstack = s.opstack \o <<[t EXCEPT !.kind = "Func"], lp.tok>>,
            !.func_stack = Append(s.func_stack,
                 [commas |-> 0, depth |-> 1, saw_expr |-> FALSE]),
            !.expect_operand = TRUE]
    ELSE [s EXCEPT
            !.lex = pk.lex,
            !.output = Append(s.output, t),
            !.func_stack = MarkSawExpr(s.func_stack, s.expect_operand),
            !.expect_operand = FALSE]

\* compile: if (t.kind == TokKind::Number) { ... }
CmpNumber(s, t) ==
    [s EXCEPT
        !.output = Append(s.output, t),
        !.func_stack = MarkSawExpr(s.func_stack, s.expect_operand),
        !.expect_operand = FALSE]

\* compile: if (t.kind == TokKind::Comma) { ... }
CmpComma(s, t) ==
    IF s.func_stack = <<>> \/ Last(s.func_stack).depth # 1
    THEN Throw(s, "Unexpected ',' (commas are only valid inside function argument lists)")
    ELSE LET r == PopToLParen(s.output, s.opstack)
             s1 == [s EXCEPT !.output = r.output, !.opstack = r.opstack]
         IN  IF r.opstack = <<>> THEN Throw(s1, "Unexpected ','")
             ELSE [s1 EXCEPT
                     !.func_stack[Len(s.func_stack)].commas = @ + 1,
                     !.expect_operand = TRUE]

\* a '(' that is pushed without being counted in the top frame's depth
CmpLParenUncounted(s, t) ==
    [s EXCEPT
        !.opstack = Append(s.opstack, t),
        !.expect_operand = TRUE]

\* compile: if (t.kind == TokKind::LParen) { ... }
CmpLParen(s, t) ==
    LET fs == IF s.func_stack = <<>> THEN s.func_stack
              ELSE LET d == Last(s.func_stack).depth + 1 IN
                   [s.func_stack EXCEPT
                      ![Len(s.func_stack)].depth = d,
                      ![Len(s.func_stack)].saw_expr =
                           IF d = 2 /\ s.expect_operand THEN TRUE ELSE @]
    IN  [s EXCEPT
            !.opstack = Append(s.opstack, t),
            !.func_stack = fs,
            !.expect_operand = TRUE]

\* fn.arity = ctx.commas + 1
CtxArity(ctx) == ctx.commas + 1

\* compile: if (t.kind == TokKind::RParen) { ... }
CmpRParen(s, t) ==
    LET fs == IF s.func_stack = <<>> THEN s.func_stack
              ELSE [s.func_stack EXCEPT ![Len(s.func_stack)].depth = @ - 1]
        s0 == [s EXCEPT !.func_stack = fs]
    IN  IF fs # <<>> /\ Last(fs).depth < 0 THEN Throw(s0, "Mismatched ')'")
        ELSE
        LET closes_function == fs # <<>> /\ Last(fs).depth = 0
            r == PopThroughLParen(s.output, s.opstack)
            s1 == [s0 EXCEPT !.output = r.output, !.opstack = r.opstack]
        IN  IF ~r.found_lparen THEN Throw(s1, "Mismatched ')'")
            ELSE IF closes_function
            THEN IF r.opstack = <<>> \/ ~is_function(Last(r.opstack).kind)
                 THEN Throw(s1, "Internal error: function context without function token")
                 ELSE
                 LET fn == Last(r.opstack)
                     ctx == Last(fs)
                     s2 == [s1 EXCEPT !.opstack = Front(r.opstack),
                                      !.func_stack = Front(fs)]
                 IN  IF ~ctx.saw_expr
                     THEN Throw(s2, "Function call has empty argument list")
                     ELSE [s2 EXCEPT
                             !.output = Append(r.output,
                                               [fn EXCEPT !.arity = CtxArity(ctx)]),
                             !.expect_operand = FALSE]
            ELSE [s1 EXCEPT !.expect_operand = FALSE]

\* the rewrite of '-' without the test of expect_operand
UnaryMinusAnywhere(t, expect_operand) ==
    IF t.kind = "Minus" THEN [t EXCEPT !.kind = "Neg"] ELSE t

\* compile: if (t.kind == TokKind::Minus && expect_operand) t.kind = TokKind::Neg;
UnaryMinus(t, expect_operand) ==
    IF t.kind = "Minus" /\ expect_operand THEN [t EXCEPT !.kind = "Neg"] ELSE t

\* compile: if (is_operator(t.kind)) { ... }, after the unary-minus rewrite
CmpOperator(s, t0) ==
    LET t == UnaryMinus(t0, s.expect_operand)
        r == ExprPopOperators(s.output, s.opstack, t.kind)
    IN  [s EXCEPT
            !.output = r.output,
            !.opstack = Append(r.opstack, t),
            !.expect_operand = TRUE]

\* compile: the two throws that end the loop body
CmpUnexpected(s, t) ==
    IF t.kind = "Assign" THEN Throw(s, "Unexpected '=' inside expression")
    ELSE Throw(s, "Unexpected token in expression")

\* compile, after the loop: drain the operator stack
RECURSIVE ExprDrain(_)
ExprDrain(s) ==
    IF s.opstack = <<>> THEN s
    ELSE IF Last(s.opstack).kind = "LParen" THEN Throw(s, "Mismatched '('")
    ELSE IF Last(s.opstack).kind = "Func" THEN Throw(s, "Mismatched function call")
    ELSE ExprDrain([s EXCEPT !.output = Append(s.output, Last(s.opstack)),
                             !.opstack = Front(s.opstack)])

\* ------------------------------------------------- ts::expr: evaluation

\* negate_value
negate_value(v) == [v EXCEPT !.term = <<"neg", v.term>>]

\* apply_binary; the TimeSeries operators throw on a size mismatch
apply_binary(op, a, b) ==
    LET t == <<OpSymbol(op), a.term, b.term>> IN
    IF a.shape = "double" /\ b.shape = "double" THEN Result(Scalar(t), "")
    ELSE IF a.shape = "Series" /\ b.shape = "Series"
        THEN IF a.n # b.n THEN Result(NoValue, "runtime_error")
             ELSE Result(Series(a.n, t), "")
    ELSE IF a.shape = "Series" THEN Result(Series(a.n, t), "")
    ELSE Result(Series(b.n, t), "")

\* an apply_function that gives a function it does not know a value
apply_function_lenient(fn, args) ==
    IF fn.text = "sumproduct"
    THEN IF Len(args) # 2 THEN Result(NoValue, "EvalError")
         ELSE IF args[1].shape = "Series" /\ args[2].shape = "Series"
                  /\ args[1].n # args[2].n THEN Result(NoValue, "runtime_error")
         ELSE Result(Scalar(<<"sumproduct", args[1].term, args[2].term>>), "")
    ELSE Result(Scalar(<<fn.text>>), "")

\* apply_function
apply_function(fn, args) ==
    IF fn.text = "sumproduct"
    THEN IF Len(args) # 2 THEN Result(NoValue, "EvalError")
         ELSE IF args[1].shape = "Series" /\ args[2].shape = "Series"
                  /\ args[1].n # args[2].n THEN Result(NoValue, "runtime_error")
         ELSE Result(Scalar(<<"sumproduct", args[1].term, args[2].term>>), "")
    ELSE Result(NoValue, "EvalError")

\* eval_rpn: case TokKind::Number
EvalNumber(t, st, e) == Step(Append(st, Scalar(<<"lit", t.number>>)), e, "")

\* eval_rpn: case TokKind::Ident
EvalIdent(t, st, e) ==
    IF t.text \notin DOMAIN e THEN Step(st, e, "EvalError")
    ELSE Step(Append(st, e[t.text]), e, "")

\* eval_rpn: case TokKind::Neg
EvalNeg(t, st, e) ==
    IF st = <<>> THEN Step(st, e, "EvalError")
    ELSE Step(Append(Front(st), negate_value(Last(st))), e, "")

\* eval_rpn: case Plus, Minus, Star, Slash
EvalBinary(t, st, e) ==
    IF Len(st) < 2 THEN Step(<<>>, e, "EvalError")
    ELSE LET b == st[Len(st)]
             a == st[Len(st) - 1]
             r == apply_binary(t.kind, a, b)
         IN  IF r.thrown # "" THEN Step(SubSeq(st, 1, Len(st) - 2), e, r.thrown)
             ELSE Step(Append(SubSeq(st, 1, Len(st) - 2), r.v), e, "")

\* eval_rpn: case TokKind::Func
EvalFunc(t, st, e) ==
    IF t.arity <= 0 THEN Step(st, e, "EvalError")
    ELSE IF t.arity > Len(st) THEN Step(st, e, "EvalError")
    ELSE LET rest == SubSeq(st, 1, Len(st) - t.arity)
             args == SubSeq(st, Len(st) - t.arity + 1, Len(st))
             r == apply_function(t, args)
         IN  IF r.thrown # "" THEN Step(rest, e, r.thrown)
             ELSE Step(Append(rest, r.v), e, "")

\* a from_scalar that makes a series of two elements
from_scalar_twice(v) == Series(2, <<"from_scalar", v.term>>)

\* TimeSeries::from_scalar
from_scalar(v) == Series(1, <<"from_scalar", v.term>>)

\* an assignment that stores the Value as it is
StoredAsIs(v) == v

\* sumproduct(const TimeSeries&, const TimeSeries&): acc += a.v[i] * b.v[i]
RECURSIVE sumproduct(_, _)
sumproduct(a, b) ==
    IF a = <<>> THEN 0 ELSE sumproduct(Front(a), Front(b)) + Last(a) * Last(b)

\* execute_assignment: the value env[c.target] is given
Stored(v) == IF v.shape = "double" THEN from_scalar(v) ELSE v

\* an assignment that stores the top of the stack before the check of its
\* size
AssignResultEarly(target, st, e) ==
    IF st = <<>> THEN Step(st, e, "EvalError")
    ELSE Step(st, store_var(e, target, Stored(Last(st))),
              IF Len(st) # 1 THEN "EvalError" ELSE "")

\* eval_rpn's end and execute_assignment's assignment
AssignResult(target, st, e) ==
    IF Len(st) # 1 THEN Step(st, e, "EvalError")
    ELSE Step(st, store_var(e, target, Stored(Last(st))), "")

\* ------------------------------------------------------------ inputs

\* operands, one operator of each precedence (Minus is also the unary one),
\* and the tokens of structure
Alphabet == {Ident("a"), Number(2), Minus, Star, LParen, RParen, Comma, Assign}

\* one operand and all four operators
ArithAlphabet == {Ident("a"), Plus, Minus, Star, Slash}

SeqsUpTo(S, n) == UNION {[1..k -> S] : k \in 0..n}

Target == <<Ident("z"), Assign>>

ExhaustiveInputs ==
    {<<>> \o e : e \in SeqsUpTo(Alphabet, MaxLen)}
    \cup {Target \o e : e \in SeqsUpTo(Alphabet, MaxExprLen)}
    \cup {Target \o e : e \in SeqsUpTo(ArithAlphabet, MaxArithLen)}

\* The statements of the README, the tests and the documented error cases.
In_EmptyCall == Target \o <<Ident("f"), LParen, RParen>>
In_NestedEmptyCall ==
    Target \o <<Ident("g"), LParen, Ident("f"), LParen, RParen, RParen>>
In_CommaInParens == Target \o <<LParen, Number(1), Comma, Number(2), RParen>>
In_CommaInCallParens ==
    Target \o <<Ident("f"), LParen, LParen, Number(1), Comma, Number(2), RParen, RParen>>
In_TrailingNumber == Target \o <<LParen, Ident("a"), RParen, Number(2)>>
In_CallAsTarget == <<Ident("f"), LParen, Ident("x"), RParen, Assign, Number(1)>>
In_OpenParen == Target \o <<LParen, Ident("a"), Plus, Number(2)>>
In_OpenCall == Target \o <<Ident("f"), LParen, Ident("a")>>
In_ScalarsOnly == <<Ident("y"), Assign, Ident("x"), Star, Number(3), Minus, Number(4)>>
In_Basic ==
    Target \o <<Ident("a"), Plus, Ident("b"), Minus, Ident("c"), Slash, Number(2)>>
In_SubSub == Target \o <<Ident("a"), Minus, Ident("b"), Minus, Ident("c")>>
In_DivMul == Target \o <<Ident("a"), Slash, Ident("b"), Star, Ident("c")>>
In_MulNeg == Target \o <<Ident("a"), Star, Minus, Ident("b")>>
In_NegParen ==
    Target \o <<Minus, LParen, Ident("a"), Plus, Ident("b"), RParen, Star, Number(2)>>
In_NegNeg == Target \o <<Minus, Minus, Ident("a")>>
In_Sumproduct ==
    Target \o <<Ident("sumproduct"), LParen, Ident("a"), Comma, Ident("b"), RParen>>
In_Missing == Target \o <<Ident("a"), Plus, Ident("missing")>>
In_Backtick ==
    Target \o <<Ident("total return"), Plus, Ident("carry"), Slash, Number(2)>>
In_SizeMismatch == Target \o <<Ident("a"), Plus, Ident("d")>>
In_NestedCall ==
    Target \o <<Ident("f"), LParen, Ident("g"), LParen, Ident("x"), RParen, RParen>>
In_NestedCallThenArg ==
    Target \o <<Ident("f"), LParen, Ident("g"), LParen, Ident("x"), RParen,
                Comma, Ident("y"), RParen>>
In_NestedCalls ==
    Target \o <<Ident("f"), LParen, Ident("g"), LParen, Ident("x"), RParen, Comma,
                Ident("h"), LParen, Ident("y"), Comma, Ident("z"), RParen, RParen>>
\* an argument list that ends in a comma: a call of two arguments on one value
In_TrailingComma ==
    Target \o <<Ident("sumproduct"), LParen, Ident("a"), Comma, RParen>>
\* sumproduct on one argument
In_SumproductOne == Target \o <<Ident("sumproduct"), LParen, Ident("a"), RParen>>

ExampleInputs ==
    {In_EmptyCall, In_NestedEmptyCall, In_CommaInParens, In_CommaInCallParens,
     In_TrailingNumber, In_CallAsTarget, In_OpenParen, In_OpenCall,
     In_ScalarsOnly, In_Basic, In_SubSub, In_DivMul, In_MulNeg, In_NegParen,
     In_NegNeg, In_Sumproduct, In_Missing, In_Backtick, In_SizeMismatch,
     In_NestedCall, In_NestedCallThenArg, In_NestedCalls, In_TrailingComma,
     In_SumproductOne}

Vec(v) == Series(Len(v), <<"vec", v>>)

\* the variables the tests and the example bind
TestVars ==
    [x \in {"a", "b", "c", "d", "carry", "total return"} |->
        CASE x = "a" -> Vec(<<1, 2, 3>>)
          [] x = "b" -> Vec(<<10, 20, 30>>)
          [] x = "c" -> Vec(<<2, 4, 6>>)
          [] x = "d" -> Vec(<<1, 2>>)
          [] x = "carry" -> Vec(<<2, 2, 2>>)
          [] x = "total return" -> Vec(<<5, 6, 7>>)]

\* be.vars of the tests: series, and the scalar x = 10.0
TestBackend == store_var(TestVars, "x", Scalar(<<"lit", 10>>))
\* an Env holds TimeSeries only
TestEnv == store_var(TestVars, "x", Vec(<<10>>))

\* a store that binds the variable and the target of the enumerated inputs
SmallVars == store_var(store_var(EmptyMap, "a", Vec(<<1, 2, 3>>)), "z", Vec(<<9>>))

\* ------------------------------------------------------ initial state

NoParser ==
    [i_ |-> 0, lhs |-> EndTok, t |-> EndTok, output |-> <<>>, opstack |-> <<>>,
     fnstack |-> <<>>, expect_operand |-> TRUE, what |-> ""]

\* no execution of SpecTwo, no lexer of SpecLexer
NoRuns == <<>>
NoLx == <<>>

NoCmp ==
    [lex |-> [i_ |-> 0, lookahead_ |-> <<>>], lhs |-> ExprTok(EndTok),
     output |-> <<>>, opstack |-> <<>>, func_stack |-> <<>>,
     expect_operand |-> TRUE, what |-> ""]

Init ==
    /\ \/ /\ input \in ExhaustiveInputs
          /\ \E m \in {EmptyMap, SmallVars} : backend = m /\ env = m
       \/ /\ input \in ExampleInputs
          /\ backend = TestBackend
          /\ env = TestEnv
    /\ pc = "compile"
    /\ parser = NoParser
    /\ program = <<>>
    /\ exec = [ip |-> 1, st |-> <<>>]
    /\ backend0 = backend
    /\ thrownP = ""
    /\ cmp = NoCmp
    /\ compiled = [target |-> "", rpn |-> <<>>]
    /\ eval = [k |-> 1, st |-> <<>>]
    /\ env0 = env
    /\ thrownE = ""
    /\ runs = NoRuns
    /\ lx = NoLx

\* what the pipelines of Spec leave alone
idleVars == <<runs, lx>>
exprVars == <<cmp, compiled, eval, env, env0, thrownE>>
tsexprVars == <<parser, program, exec, backend, backend0, thrownP>>

\* ------------------------------------------------ tsexpr::compile steps

\* one iteration of to_rpn's loop ends in state s
ToRpn(s) ==
    /\ parser' = s
    /\ IF s.what # ""
       THEN pc' = "execute_assignment" /\ thrownP' = "ParseError"
       ELSE pc' = "to_rpn" /\ UNCHANGED thrownP
    /\ UNCHANGED <<idleVars, input, program, exec, backend, backend0, exprVars>>

Compile ==
    /\ pc = "compile"
    /\ LET s == CompileHead IN
       /\ parser' = s
       /\ IF s.what # ""
          THEN pc' = "execute_assignment" /\ thrownP' = "ParseError"
          ELSE pc' = "to_rpn" /\ UNCHANGED thrownP
    /\ UNCHANGED <<idleVars, input, program, exec, backend, backend0, exprVars>>

ToRpnIdent ==
    pc = "to_rpn" /\ parser.t.kind = "Ident" /\ ToRpn(RpnIdent(parser))

ToRpnNumber ==
    pc = "to_rpn" /\ parser.t.kind = "Number" /\ ToRpn(RpnNumber(parser))

ToRpnLParen ==
    pc = "to_rpn" /\ parser.t.kind = "LParen" /\ ToRpn(RpnLParen(parser))

ToRpnComma ==
    pc = "to_rpn" /\ parser.t.kind = "Comma" /\ ToRpn(RpnComma(parser))

ToRpnRParen ==
    pc = "to_rpn" /\ parser.t.kind = "RParen" /\ ToRpn(RpnRParen(parser))

ToRpnOperator ==
    /\ pc = "to_rpn"
    /\ is_op(Disambiguate(parser.t, parser.expect_operand).kind)
    /\ ToRpn(RpnOperator(parser))

ToRpnUnexpected ==
    /\ pc = "to_rpn"
    /\ parser.t.kind \notin {"End", "Ident", "Number", "LParen", "Comma", "RParen"}
    /\ ~is_op(Disambiguate(parser.t, parser.expect_operand).kind)
    /\ ToRpn(RpnUnexpected(parser))

\* the loop ends: drain, lower, append the Store, return the Program
CompileReturn ==
    /\ pc = "to_rpn"
    /\ parser.t.kind = "End"
    /\ LET s == Drain(parser) IN
       IF s.what # ""
       THEN /\ parser' = s
            /\ pc' = "execute_assignment" /\ thrownP' = "ParseError"
            /\ UNCHANGED program
       ELSE IF LowerThrows(s.output)
       THEN /\ parser' = Throw(s, "Unsupported token in RPN compilation")
            /\ pc' = "execute_assignment" /\ thrownP' = "ParseError"
            /\ UNCHANGED program
       ELSE /\ parser' = s
            /\ program' = Lower(s.output, s.lhs)
            /\ pc' = "execute"
            /\ UNCHANGED thrownP
    /\ UNCHANGED <<idleVars, input, exec, backend, backend0, exprVars>>

\* ------------------------------------------------ Program::execute steps

\* one instruction ends in r
Execute(r) ==
    /\ backend' = r.vars
    /\ IF r.thrown # ""
       THEN /\ pc' = "execute_assignment"
            /\ thrownP' = r.thrown
            /\ exec' = [exec EXCEPT !.st = r.st]
       ELSE /\ pc' = "execute"
            /\ exec' = [ip |-> exec.ip + 1, st |-> r.st]
            /\ UNCHANGED thrownP
    /\ UNCHANGED <<idleVars, input, parser, program, backend0, exprVars>>

Fetch(op) ==
    /\ pc = "execute"
    /\ exec.ip <= Len(program)
    /\ program[exec.ip].op \in op

ExecutePushVar ==
    Fetch({"PushVar"}) /\ Execute(ExecPushVar(program[exec.ip], exec.st, backend))

ExecutePushNum ==
    Fetch({"PushNum"}) /\ Execute(ExecPushNum(program[exec.ip], exec.st, backend))

ExecuteNeg ==
    Fetch({"Neg"}) /\ Execute(ExecNeg(program[exec.ip], exec.st, backend))

ExecuteBinary ==
    /\ Fetch({"Add", "Sub", "Mul", "Div"})
    /\ Execute(ExecBinary(program[exec.ip], exec.st, backend))

ExecuteCall ==
    Fetch({"Call"}) /\ Execute(ExecCall(program[exec.ip], exec.st, backend))

ExecuteStore ==
    Fetch({"Store"}) /\ Execute(ExecStore(program[exec.ip], exec.st, backend))

ExecuteReturn ==
    /\ pc = "execute"
    /\ exec.ip > Len(program)
    /\ pc' = "execute_assignment"
    /\ UNCHANGED <<idleVars, input, tsexprVars, exprVars>>

\* ------------------------------------- ts::expr::execute_assignment steps

\* one iteration of compile's loop ends in state s
Cmp(s) ==
    /\ cmp' = s
    /\ IF s.what # ""
       THEN pc' = "done" /\ thrownE' = "ParseError"
       ELSE pc' = "expr_compile" /\ UNCHANGED thrownE
    /\ UNCHANGED <<idleVars, input, compiled, eval, env, env0, tsexprVars>>

\* execute_assignment calls compile
ExecuteAssignment ==
    /\ pc = "execute_assignment"
    /\ Cmp(ExprCompileHead)

\* Token t = lex.next(), for the iteration that starts in cmp
Tk == next(cmp.lex).tok
Taken == [cmp EXCEPT !.lex = next(cmp.lex).lex]

ExprCompileIdent ==
    pc = "expr_compile" /\ Tk.kind = "Ident" /\ Cmp(CmpIdent(Taken, Tk))

ExprCompileNumber ==
    pc = "expr_compile" /\ Tk.kind = "Number" /\ Cmp(CmpNumber(Taken, Tk))

ExprCompileComma ==
    pc = "expr_compile" /\ Tk.kind = "Comma" /\ Cmp(CmpComma(Taken, Tk))

ExprCompileLParen ==
    pc = "expr_compile" /\ Tk.kind = "LParen" /\ Cmp(CmpLParen(Taken, Tk))

ExprCompileRParen ==
    pc = "expr_compile" /\ Tk.kind = "RParen" /\ Cmp(CmpRParen(Taken, Tk))

ExprCompileOperator ==
    /\ pc = "expr_compile"
    /\ is_operator(UnaryMinus(Tk, cmp.expect_operand).kind)
    /\ Cmp(CmpOperator(Taken, Tk))

ExprCompileUnexpected ==
    /\ pc = "expr_compile"
    /\ Tk.kind \notin {"End", "Ident", "Number", "Comma", "LParen", "RParen"}
    /\ ~is_operator(UnaryMinus(Tk, cmp.expect_operand).kind)
    /\ Cmp(CmpUnexpected(Taken, Tk))

\* the loop ends: drain and return Compiled{lhs.text, output}
ExprCompileReturn ==
    /\ pc = "expr_compile"
    /\ Tk.kind = "End"
    /\ LET s == ExprDrain(Taken) IN
       /\ cmp' = s
       /\ IF s.what # ""
          THEN pc' = "done" /\ thrownE' = "ParseError" /\ UNCHANGED compiled
          ELSE /\ pc' = "eval_rpn"
               /\ compiled' = [target |-> s.lhs.text, rpn |-> s.output]
               /\ UNCHANGED thrownE
    /\ UNCHANGED <<idleVars, input, eval, env, env0, tsexprVars>>

\* one token of eval_rpn's loop ends in r
Eval(r) ==
    /\ IF r.thrown # ""
       THEN /\ pc' = "done"
            /\ thrownE' = r.thrown
            /\ eval' = [eval EXCEPT !.st = r.st]
       ELSE /\ pc' = "eval_rpn"
            /\ eval' = [k |-> eval.k + 1, st |-> r.st]
            /\ UNCHANGED thrownE
    /\ UNCHANGED <<idleVars, input, cmp, compiled, env, env0, tsexprVars>>

Visit(kinds) ==
    /\ pc = "eval_rpn"
    /\ eval.k <= Len(compiled.rpn)
    /\ compiled.rpn[eval.k].kind \in kinds

EvalRpnNumber ==
    Visit({"Number"}) /\ Eval(EvalNumber(compiled.rpn[eval.k], eval.st, env))

EvalRpnIdent ==
    Visit({"Ident"}) /\ Eval(EvalIdent(compiled.rpn[eval.k], eval.st, env))

EvalRpnNeg ==
    Visit({"Neg"}) /\ Eval(EvalNeg(compiled.rpn[eval.k], eval.st, env))

EvalRpnBinary ==
    /\ Visit({"Plus", "Minus", "Star", "Slash"})
    /\ Eval(EvalBinary(compiled.rpn[eval.k], eval.st, env))

EvalRpnFunc ==
    Visit({"Func"}) /\ Eval(EvalFunc(compiled.rpn[eval.k], eval.st, env))

\* eval_rpn returns and execute_assignment assigns
ExecuteAssignmentStore ==
    /\ pc = "eval_rpn"
    /\ eval.k > Len(compiled.rpn)
    /\ LET r == AssignResult(compiled.target, eval.st, env) IN
       /\ env' = r.vars
       /\ pc' = "done"
       /\ thrownE' = r.thrown
    /\ UNCHANGED <<idleVars, input, cmp, compiled, eval, env0, tsexprVars>>

Next ==
    \/ Compile
    \/ ToRpnIdent
    \/ ToRpnNumber
    \/ ToRpnLParen
    \/ ToRpnComma
    \/ ToRpnRParen
    \/ ToRpnOperator
    \/ ToRpnUnexpected
    \/ CompileReturn
    \/ ExecutePushVar
    \/ ExecutePushNum
    \/ ExecuteNeg
    \/ ExecuteBinary
    \/ ExecuteCall
    \/ ExecuteStore
    \/ ExecuteReturn
    \/ ExecuteAssignment
    \/ ExprCompileIdent
    \/ ExprCompileNumber
    \/ ExprCompileComma
    \/ ExprCompileLParen
    \/ ExprCompileRParen
    \/ ExprCompileOperator
    \/ ExprCompileUnexpected
    \/ ExprCompileReturn
    \/ EvalRpnNumber
    \/ EvalRpnIdent
    \/ EvalRpnNeg
    \/ EvalRpnBinary
    \/ EvalRpnFunc
    \/ ExecuteAssignmentStore

Spec == Init /\ [][Next]_vars

\* ------------------------------------- two executions of one Program

Runs == {1, 2}

\* the statements executed twice: the examples and every short one
TwoInputs ==
    ExampleInputs \cup {Target \o e : e \in SeqsUpTo(Alphabet, MaxTwoLen)}

\* one operand stack for both executions, that of the first
StackOfFirst(i) == runs[1].st

\* std::vector<Value> st: the operand stack is a local of each call
StackOf(i) == runs[i].st

\* an execution that overwrites the instruction it has executed
CodeConsumed(code, ip) == [code EXCEPT ![ip] = Instr("PushNum", "", 0, 0)]

\* execute is a const member and reads `code` through const references: the
\* code after the instruction at ip has been executed
CodeAfter(code, ip) == code

\* The Program has been compiled from the input; two calls of execute are
\* about to start, each on a backend of its own, the two backends equal.
InitTwo ==
    /\ \/ /\ input \in {Target \o e : e \in SeqsUpTo(Alphabet, MaxTwoLen)}
          /\ backend0 \in {EmptyMap, SmallVars}
       \/ /\ input \in ExampleInputs
          /\ backend0 = TestBackend
    /\ compile.what = ""
    /\ program = compile.code
    /\ runs = [i \in Runs |->
                 [ip |-> 1, st |-> <<>>, vars |-> backend0, thrown |-> "",
                  pc |-> "execute"]]
    /\ pc = "two"
    /\ parser = NoParser
    /\ exec = [ip |-> 1, st |-> <<>>]
    /\ backend = backend0
    /\ thrownP = ""
    /\ cmp = NoCmp
    /\ compiled = [target |-> "", rpn |-> <<>>]
    /\ eval = [k |-> 1, st |-> <<>>]
    /\ env = EmptyMap
    /\ env0 = EmptyMap
    /\ thrownE = ""
    /\ lx = NoLx

\* what the executions of SpecTwo leave alone
mainVars == <<input, pc, parser, exec, backend, backend0, thrownP, exprVars, lx>>

\* execution i runs one iteration of the loop of Program::execute
TwoExecute(i) ==
    /\ pc = "two"
    /\ runs[i].pc = "execute"
    /\ runs[i].ip <= Len(program)
    /\ LET r == ExecInstr(program[runs[i].ip], StackOf(i), runs[i].vars) IN
       runs' = [runs EXCEPT ![i] =
                  IF r.thrown # ""
                  THEN [@ EXCEPT !.st = r.st, !.thrown = r.thrown, !.pc = "threw"]
                  ELSE [@ EXCEPT !.ip = @ + 1, !.st = r.st, !.vars = r.vars]]
    /\ program' = CodeAfter(program, runs[i].ip)
    /\ UNCHANGED mainVars

\* execution i leaves the loop and returns
TwoReturn(i) ==
    /\ pc = "two"
    /\ runs[i].pc = "execute"
    /\ runs[i].ip > Len(program)
    /\ runs' = [runs EXCEPT ![i].pc = "returned"]
    /\ UNCHANGED <<program, mainVars>>

NextTwo == \E i \in Runs : TwoExecute(i) \/ TwoReturn(i)

SpecTwo == InitTwo /\ [][NextTwo]_vars

\* ------------------------------------------- the lexers, on characters

\* A text is a sequence of characters, i_ the number of characters consumed.
\* A token of this section keeps its identifier and its numeral as the
\* characters they were read from.
SingleChars == {"+", "-", "*", "/", "(", ")", ",", "="}
KindOfChar(c) ==
    CASE c = "+" -> "Plus" [] c = "-" -> "Minus" [] c = "*" -> "Star"
      [] c = "/" -> "Slash" [] c = "(" -> "LParen" [] c = ")" -> "RParen"
      [] c = "," -> "Comma" [] c = "=" -> "Assign"
\* the backquote character, by name
Backquote == "backquote"
Digits == {"0", "1", "2", "3", "4", "5", "6", "7", "8", "9"}
Letters == {"a", "b", "c", "x", "y", "z"}

isspace(c) == c = " "
is_ident_start(c) == c \in Letters \/ c = "_"
is_ident_char(c) == c \in Letters \/ c \in Digits \/ c = "_"

CharTok(k, chars, numeral) == [kind |-> k, text |-> chars, number |-> numeral]
Lexed(t, i) == [tok |-> t, i_ |-> i, what |-> ""]
LexThrows(msg, i) == [tok |-> CharTok("End", <<>>, <<>>), i_ |-> i, what |-> msg]

\* Lexer::skip_ws
RECURSIVE skip_ws(_, _)
skip_ws(text, i) ==
    IF i < Len(text) /\ isspace(text[i + 1]) THEN skip_ws(text, i + 1) ELSE i

\* a scan for the closing backquote that also stops at a blank
RECURSIVE ToBacktickWord(_, _)
ToBacktickWord(text, i) ==
    IF i < Len(text) /\ text[i + 1] # Backquote /\ text[i + 1] # " "
    THEN ToBacktickWord(text, i + 1) ELSE i

\* the scan for the closing backquote: while (!is_end() && s_[i_] != ...) ++i_;
RECURSIVE ToBacktick(_, _)
ToBacktick(text, i) ==
    IF i < Len(text) /\ text[i + 1] # Backquote THEN ToBacktick(text, i + 1) ELSE i

\* while (!is_end() && is_ident_char(s_[i_])) ++i_;
RECURSIVE ToIdentEnd(_, _)
ToIdentEnd(text, i) ==
    IF i < Len(text) /\ is_ident_char(text[i + 1]) THEN ToIdentEnd(text, i + 1) ELSE i

RECURSIVE ToDigitsEnd(_, _)
ToDigitsEnd(text, i) ==
    IF i < Len(text) /\ text[i + 1] \in Digits THEN ToDigitsEnd(text, i + 1) ELSE i

\* std::strtod on digits and '.': where the numeral that starts at i ends
\* (i itself when there is no digit)
strtod(text, i) ==
    LET e1 == ToDigitsEnd(text, i)
        e2 == IF e1 < Len(text) /\ text[e1 + 1] = "." THEN ToDigitsEnd(text, e1 + 1) ELSE e1
    IN  IF e1 = i /\ e2 <= i + 1 THEN i ELSE e2

\* tsexpr::Lexer::next, and ts::expr::Lexer::next_impl which repeats it
LexerNextChars(text, i0) ==
    LET i == skip_ws(text, i0) IN
    IF i >= Len(text) THEN Lexed(CharTok("End", <<>>, <<>>), i)
    ELSE LET c == text[i + 1] IN
         IF c \in SingleChars THEN Lexed(CharTok(KindOfChar(c), <<>>, <<>>), i + 1)
         ELSE IF c = Backquote
             THEN LET e == ToBacktick(text, i + 1) IN
                  IF e >= Len(text) THEN LexThrows("Unterminated backtick identifier", e)
                  ELSE Lexed(CharTok("Ident", SubSeq(text, i + 2, e), <<>>), e + 1)
         ELSE IF is_ident_start(c)
             THEN LET e == ToIdentEnd(text, i + 1) IN
                  Lexed(CharTok("Ident", SubSeq(text, i + 1, e), <<>>), e)
         ELSE IF c \in Digits \/ c = "."
             THEN LET e == strtod(text, i) IN
                  IF e = i THEN LexThrows("Invalid number", i)
                  ELSE Lexed(CharTok("Number", <<>>, SubSeq(text, i + 1, e)), e)
         ELSE LexThrows("Unexpected character", i)

\* a peek() that hands the token over without keeping it in lookahead_
PeekConsuming(text, lex) ==
    LET n == LexerNextChars(text, lex.i_) IN
    [tok |-> n.tok, what |-> n.what,
     lex |-> [i_ |-> n.i_, lookahead_ |-> <<>>]]

\* ts::expr::Lexer::peek on a lexer [i_, lookahead_]; a throw of next_impl
\* leaves lookahead_ empty
PeekChars(text, lex) ==
    IF lex.lookahead_ = <<>>
    THEN LET n == LexerNextChars(text, lex.i_) IN
         [tok |-> n.tok, what |-> n.what,
          lex |-> [i_ |-> n.i_,
                   lookahead_ |-> IF n.what = "" THEN <<n.tok>> ELSE <<>>]]
    ELSE [tok |-> lex.lookahead_[1], what |-> "", lex |-> lex]

\* ts::expr::Lexer::next
NextChars(text, lex) ==
    IF lex.lookahead_ # <<>>
    THEN [tok |-> lex.lookahead_[1], what |-> "",
          lex |-> [lex EXCEPT !.lookahead_ = <<>>]]
    ELSE LET n == LexerNextChars(text, lex.i_) IN
         [tok |-> n.tok, what |-> n.what, lex |-> [lex EXCEPT !.i_ = n.i_]]

\* the characters of the texts lexed call by call
LexAlphabet == {"a", "2", " ", "-", Backquote, "$"}

\* A Lexer of one of the two classes has been constructed on a text.
InitLexer ==
    /\ \E text \in SeqsUpTo(LexAlphabet, MaxLexLen), class \in {"tsexpr", "ts::expr"} :
          lx = [class |-> class, text |-> text,
                lex |-> [i_ |-> 0, lookahead_ |-> <<>>], hist |-> <<>>]
    /\ input = <<>>
    /\ pc = "lexer"
    /\ parser = NoParser
    /\ program = <<>>
    /\ exec = [ip |-> 1, st |-> <<>>]
    /\ backend = EmptyMap
    /\ backend0 = EmptyMap
    /\ thrownP = ""
    /\ cmp = NoCmp
    /\ compiled = [target |-> "", rpn |-> <<>>]
    /\ eval = [k |-> 1, st |-> <<>>]
    /\ env = EmptyMap
    /\ env0 = EmptyMap
    /\ thrownE = ""
    /\ runs = NoRuns

\* a call returned (or threw): the lexer and the history after it
Called(method, r) ==
    /\ lx' = [lx EXCEPT
                !.lex = r.lex,
                !.hist = Append(@, [call |-> method, tok |-> r.tok, what |-> r.what,
                                    i_ |-> r.lex.i_])]
    /\ UNCHANGED <<input, pc, tsexprVars, exprVars, runs>>

\* tsexpr::Lexer::next is called
LexerNextCall ==
    /\ pc = "lexer" /\ lx.class = "tsexpr" /\ Len(lx.hist) < MaxCalls
    /\ LET n == LexerNextChars(lx.text, lx.lex.i_) IN
       Called("next", [tok |-> n.tok, what |-> n.what,
                       lex |-> [lx.lex EXCEPT !.i_ = n.i_]])

\* ts::expr::Lexer::next is called
ExprLexerNextCall ==
    /\ pc = "lexer" /\ lx.class = "ts::expr" /\ Len(lx.hist) < MaxCalls
    /\ Called("next", NextChars(lx.text, lx.lex))

\* ts::expr::Lexer::peek is called
ExprLexerPeekCall ==
    /\ pc = "lexer" /\ lx.class = "ts::expr" /\ Len(lx.hist) < MaxCalls
    /\ Called("peek", PeekChars(lx.text, lx.lex))

NextLexer == LexerNextCall \/ ExprLexerNextCall \/ ExprLexerPeekCall

SpecLexer == InitLexer /\ [][NextLexer]_vars

\* ------------------------------------- a statement, from its characters

\* SpecText takes a text through the lexer character by character and hands
\* the tokens to the two pipelines.  The calls of next() that the parsers
\* make one by one are made ahead of them: the lexer's only state is its
\* position, so the tokens are the same.  A throw of the lexer ends both
\* compile functions in ParseError, as a throw of the parser before it does.

\* SpecText: every text `z=e` with e of at most MaxTextLen characters, and
\* every text of fewer than MaxTextLen characters.
MaxTextLen == 4

\* std::string(s_.substr(start, i_ - start)): the characters as one string
RECURSIVE NameOf(_)
NameOf(chars) == IF chars = <<>> THEN "" ELSE chars[1] \o NameOf(Tail(chars))

DigitValue(c) ==
    CASE c = "0" -> 0 [] c = "1" -> 1 [] c = "2" -> 2 [] c = "3" -> 3 [] c = "4" -> 4
      [] c = "5" -> 5 [] c = "6" -> 6 [] c = "7" -> 7 [] c = "8" -> 8 [] c = "9" -> 9

\* the double strtod returns for a numeral of digits (the texts hold no '.')
RECURSIVE ValueOf(_)
ValueOf(digits) ==
    IF digits = <<>> THEN 0
    ELSE ValueOf(Front(digits)) * 10 + DigitValue(Last(digits))

\* the Token that Lexer::next returns, with its text and its number
AsToken(t) ==
    CASE t.kind = "Ident" -> Ident(NameOf(t.text))
      [] t.kind = "Number" -> Number(ValueOf(t.number))
      [] OTHER -> Tok(t.kind, "", 0)

TextAlphabet == {"a", " ", "-", "(", ")", "=", Backquote}

\* the statement of the tests with a quoted variable (names shortened to the
\* letters of the model), one with a quoted target as well, and one with a
\* quote that is not closed
T_Backtick ==
    <<"z", " ", "=", " ", Backquote, "a", " ", "b", Backquote, " ", "+", " ",
      "c", " ", "/", " ", "2">>
T_BacktickTarget ==
    <<Backquote, "x", " ", "y", Backquote, " ", "=", " ", Backquote, "a",
      " ", "b", Backquote, " ", "-", " ", "c">>
T_Unterminated ==
    <<"z", " ", "=", " ", "a", " ", "+", " ", Backquote, "a", " ", "b">>
\* a call of two arguments
T_Call ==
    <<"z", " ", "=", " ", "a", "(", "a", ",", " ", "c", ")">>

Texts ==
    {<<"z", "=">> \o e : e \in SeqsUpTo(TextAlphabet, MaxTextLen)}
    \cup SeqsUpTo(TextAlphabet, MaxTextLen - 1)
    \cup {T_Backtick, T_BacktickTarget, T_Unterminated, T_Call}

\* the variables the texts read
TextVars ==
    [x \in {"a", "c", "a b"} |->
        CASE x = "a" -> Vec(<<1, 2, 3>>)
          [] x = "c" -> Vec(<<2, 4, 6>>)
          [] x = "a b" -> Vec(<<5, 6, 7>>)]

InitText ==
    /\ \E text \in Texts :
          lx = [class |-> "tsexpr", text |-> text,
                lex |-> [i_ |-> 0, lookahead_ |-> <<>>], hist |-> <<>>]
    /\ input = <<>>
    /\ pc = "lex"
    /\ parser = NoParser
    /\ program = <<>>
    /\ exec = [ip |-> 1, st |-> <<>>]
    /\ backend = TextVars
    /\ backend0 = TextVars
    /\ thrownP = ""
    /\ cmp = NoCmp
    /\ compiled = [target |-> "", rpn |-> <<>>]
    /\ eval = [k |-> 1, st |-> <<>>]
    /\ env = TextVars
    /\ env0 = TextVars
    /\ thrownE = ""
    /\ runs = NoRuns

\* Lexer::next on the text, from the position the last call left
TextNext == LexerNextChars(lx.text, lx.lex.i_)

\* the lexer after the call
TextLexed ==
    lx' = [lx EXCEPT
             !.lex.i_ = TextNext.i_,
             !.hist = Append(@, [call |-> "next", tok |-> TextNext.tok,
                                 what |-> TextNext.what, i_ |-> TextNext.i_])]

\* next() returns a token of the statement
TextLexToken ==
    /\ pc = "lex"
    /\ TextNext.what = "" /\ TextNext.tok.kind # "End"
    /\ TextLexed
    /\ input' = Append(input, AsToken(TextNext.tok))
    /\ UNCHANGED <<pc, parser, program, exec, backend, backend0, thrownP,
                   cmp, compiled, eval, env, env0, thrownE, runs>>

\* next() returns End: the tokens are complete
TextLexEnd ==
    /\ pc = "lex"
    /\ TextNext.what = "" /\ TextNext.tok.kind = "End"
    /\ TextLexed
    /\ pc' = "compile"
    /\ UNCHANGED <<input, parser, program, exec, backend, backend0, thrownP,
                   cmp, compiled, eval, env, env0, thrownE, runs>>

\* next() throws ParseError
TextLexThrows ==
    /\ pc = "lex"
    /\ TextNext.what # ""
    /\ TextLexed
    /\ pc' = "done"
    /\ thrownP' = "ParseError"
    /\ thrownE' = "ParseError"
    /\ UNCHANGED <<input, parser, program, exec, backend, backend0,
                   cmp, compiled, eval, env, env0, runs>>

NextText == TextLexToken \/ TextLexEnd \/ TextLexThrows \/ Next

SpecText == InitText /\ [][NextText]_vars

\* the statement is executed by a thread that keeps running
SpecTextLive == SpecText /\ WF_vars(NextText)

\* =================================================================
\* Properties
\* =================================================================

\* the expression part of the input and whether the statement head is
\* `IDENT =`
Expr == SubSeq(input, 3, Len(input))
HeadOk == Len(input) >= 2 /\ input[1].kind = "Ident" /\ input[2].kind = "Assign"

\* tsexpr::compile has returned a Program / has thrown
TsexprReturned == pc \notin {"compile", "to_rpn"}
TsexprCompiled == TsexprReturned /\ thrownP # "ParseError"
\* ts::expr::compile has returned a Compiled
ExprCompiled == pc = "eval_rpn" \/ (pc = "done" /\ thrownE # "ParseError")

RECURSIVE Count(_, _)
Count(seq, kinds) ==
    IF seq = <<>> THEN 0
    ELSE Count(Front(seq), kinds) + (IF Last(seq).kind \in kinds THEN 1 ELSE 0)

\* <<kind, text, number>> of each token
Shape(seq) == [k \in 1..Len(seq) |-> <<seq[k].kind, seq[k].text, seq[k].number>>]

\* the tokens each loop has consumed and handled so far
RpnNextIndex == IF parser.t.kind = "End" THEN Len(input) + 1 ELSE parser.i_
CmpNextIndex ==
    IF cmp.lex.lookahead_ = <<>> THEN cmp.lex.i_ + 1
    ELSE IF cmp.lex.lookahead_[1].kind = "End" THEN Len(input) + 1
    ELSE cmp.lex.i_

\* ----------------------------------------------------------------- C1

\* positions of the expression where a call with empty parentheses starts
EmptyCallAt(e, k) ==
    /\ k + 2 <= Len(e)
    /\ e[k].kind = "Ident" /\ e[k + 1].kind = "LParen" /\ e[k + 2].kind = "RParen"
HasEmptyCall(e) == \E k \in 1..Len(e) : EmptyCallAt(e, k)

\* C1: a statement whose expression holds a call with empty parentheses is
\* rejected with ParseError by tsexpr::compile and by ts::expr::compile, and
\* no compiled program holds a Call of arity 0.
C1_EmptyCallRejected ==
    /\ TsexprReturned /\ HasEmptyCall(Expr) => thrownP = "ParseError"
    /\ pc = "done" /\ HasEmptyCall(Expr) => thrownE = "ParseError"
    /\ \A k \in 1..Len(program) : program[k].op = "Call" => program[k].argc # 0
    /\ \A k \in 1..Len(compiled.rpn) :
          compiled.rpn[k].kind = "Func" => compiled.rpn[k].arity # 0

\* ----------------------------------------------------------------- C2

\* the open parentheses before position k of e, innermost last: "call" for
\* the parenthesis of a function call, "plain" otherwise
RECURSIVE OpenParens(_, _)
OpenParens(e, k) ==
    IF k = 0 THEN <<>>
    ELSE LET before == OpenParens(e, k - 1) IN
         CASE e[k].kind = "LParen" ->
                Append(before, IF k > 1 /\ e[k - 1].kind = "Ident"
                               THEN "call" ELSE "plain")
           [] e[k].kind = "RParen" ->
                IF before = <<>> THEN before ELSE Front(before)
           [] OTHER -> before

\* a comma that is not directly inside the parentheses of a call
MisplacedCommaAt(e, k) ==
    /\ e[k].kind = "Comma"
    /\ LET open == OpenParens(e, k - 1) IN open = <<>> \/ Last(open) = "plain"
HasMisplacedComma(e) == \E k \in 1..Len(e) : MisplacedCommaAt(e, k)

\* C2: a comma at top level, inside plain parentheses, or inside nested
\* parentheses within a call's argument makes both compile implementations
\* fail with ParseError.
C2_MisplacedCommaRejected ==
    /\ TsexprReturned /\ HasMisplacedComma(Expr) => thrownP = "ParseError"
    /\ pc = "done" /\ HasMisplacedComma(Expr) => thrownE = "ParseError"

\* ----------------------------------------------------------------- C3

\* C3: a compiled program never pops an empty operand stack and holds
\* exactly one value when it reaches its Store; eval_rpn of a compiled rpn
\* ends with exactly one value.
C3_CompiledIsWellFormed ==
    /\ thrownP # "EvalError"
    /\ pc = "execute" /\ exec.ip <= Len(program) /\ program[exec.ip].op = "Store"
          => Len(exec.st) = 1
    /\ pc = "eval_rpn" /\ eval.k > Len(compiled.rpn) => Len(eval.st) = 1

\* ----------------------------------------------------------------- C4

\* an operand directly after an operand or a closing parenthesis
HasTrailingOperand(e) ==
    \E k \in 1..(Len(e) - 1) :
        /\ e[k].kind \in {"Ident", "Number", "RParen"}
        /\ e[k + 1].kind \in {"Ident", "Number"}

\* C4: an operand that follows a complete expression (`z = a b`,
\* `z = (a) 2`) makes compile fail with ParseError.
C4_TrailingOperandRejected ==
    /\ TsexprReturned /\ HasTrailingOperand(Expr) => thrownP = "ParseError"
    /\ pc = "done" /\ HasTrailingOperand(Expr) => thrownE = "ParseError"

\* ----------------------------------------------------------------- C5

\* C5: `z =` makes both compile implementations fail with ParseError;
\* compile never returns a program or an rpn without expression instructions.
C5_EmptyExpressionRejected ==
    /\ TsexprReturned /\ Expr = <<>> => thrownP = "ParseError"
    /\ pc = "done" /\ Expr = <<>> => thrownE = "ParseError"
    /\ TsexprCompiled => Len(program) >= 2
    /\ ExprCompiled => Len(compiled.rpn) >= 1

\* ----------------------------------------------------------------- C6

\* C6: compile succeeds only when the input starts `IDENT =`; the leading
\* identifier becomes the Store target (the Compiled target) and is emitted
\* nowhere else: the PushVar and Call instructions are exactly the
\* identifiers of the expression.
C6_HeadIsTargetThenAssign ==
    /\ TsexprReturned /\ ~HeadOk => thrownP = "ParseError" /\ program = <<>>
    /\ TsexprCompiled =>
          /\ HeadOk
          /\ Last(program) = Instr("Store", input[1].text, 0, 0)
          /\ \A k \in 1..(Len(program) - 1) : program[k].op # "Store"
          /\ Cardinality({k \in 1..Len(program) : program[k].op \in {"PushVar", "Call"}})
                = Count(Expr, {"Ident"})
    /\ pc = "done" /\ ~HeadOk => thrownE = "ParseError"
    /\ ExprCompiled =>
          /\ HeadOk
          /\ compiled.target = input[1].text
          /\ Count(compiled.rpn, {"Ident", "Func"}) = Count(Expr, {"Ident"})

\* `f(x) = 1`: a call in the place of the target is rejected by both
C6_Witness ==
    /\ pc = "done"
    /\ input = In_CallAsTarget
    /\ thrownP = "ParseError" /\ parser.what = "Expected '=' after assignment target"
    /\ thrownE = "ParseError" /\ cmp.what = "Expected '=' after assignment target"
    /\ program = <<>> /\ backend = backend0 /\ env = env0

\* ----------------------------------------------------------------- C7

\* open minus closed parentheses among the first n tokens of the expression
ParenDepth(n) ==
    Count(SubSeq(Expr, 1, n), {"LParen"}) - Count(SubSeq(Expr, 1, n), {"RParen"})

\* C7: the '(' on the operator stack are the parentheses still open in the
\* tokens handled so far (a ')' without one fails at that token), a compiled
\* statement has balanced parentheses, and no '(' reaches the postfix output.
C7_UnbalancedParensRejected ==
    /\ pc = "to_rpn" =>
          Count(parser.opstack, {"LParen"}) = ParenDepth(RpnNextIndex - 3)
    /\ TsexprCompiled => ParenDepth(Len(Expr)) = 0
    /\ Count(parser.output, {"LParen", "RParen"}) = 0
    /\ \A k \in 1..Len(program) : program[k].op # "Unsupported"
    /\ pc = "expr_compile" =>
          Count(cmp.opstack, {"LParen"}) = ParenDepth(CmpNextIndex - 3)
    /\ ExprCompiled => ParenDepth(Len(Expr)) = 0
    /\ Count(cmp.output, {"LParen", "RParen"}) = 0

\* `z = (a + 2` is rejected when the stack is drained, by both
C7_Witness ==
    /\ pc = "done"
    /\ input = In_OpenParen
    /\ thrownP = "ParseError" /\ parser.what = "Mismatched '('"
    /\ thrownE = "ParseError" /\ cmp.what = "Mismatched '('"

\* ------------------------------------------------- reference evaluator

\* The grammar the claims read expressions by:
\*     expr   := term   (('+' | '-') term)*        left to right
\*     term   := factor (('*' | '/') factor)*      left to right
\*     factor := '-' factor | IDENT | NUMBER | '(' expr ')'
\* Each operator gives [ok, pos, term]: whether a phrase starts at position
\* p of e, the position after it, and the term it denotes over the store m.
Fail == [ok |-> FALSE, pos |-> 0, term |-> <<"none">>]
Parsed(p, t) == [ok |-> TRUE, pos |-> p, term |-> t]

Leaf(m, name) == IF name \in DOMAIN m THEN m[name].term ELSE <<"unbound", name>>

RECURSIVE RefExpr(_, _, _)
RECURSIVE RefExprRest(_, _, _, _)
RECURSIVE RefTerm(_, _, _)
RECURSIVE RefTermRest(_, _, _, _)
RECURSIVE RefFactor(_, _, _)

RefFactor(e, p, m) ==
    IF p > Len(e) THEN Fail
    ELSE CASE e[p].kind = "Minus" ->
                LET r == RefFactor(e, p + 1, m) IN
                IF r.ok THEN Parsed(r.pos, <<"neg", r.term>>) ELSE Fail
           [] e[p].kind = "Number" -> Parsed(p + 1, <<"lit", e[p].number>>)
           [] e[p].kind = "Ident" ->
                IF p < Len(e) /\ e[p + 1].kind = "LParen" THEN Fail
                ELSE Parsed(p + 1, Leaf(m, e[p].text))
           [] e[p].kind = "LParen" ->
                LET r == RefExpr(e, p + 1, m) IN
                IF r.ok /\ r.pos <= Len(e) /\ e[r.pos].kind = "RParen"
                THEN Parsed(r.pos + 1, r.term) ELSE Fail
           [] OTHER -> Fail

RefTermRest(e, p, m, acc) ==
    IF p <= Len(e) /\ e[p].kind \in {"Star", "Slash"}
    THEN LET r == RefFactor(e, p + 1, m) IN
         IF r.ok
         THEN RefTermRest(e, r.pos, m,
                          <<IF e[p].kind = "Star" THEN "*" ELSE "/", acc, r.term>>)
         ELSE Fail
    ELSE Parsed(p, acc)

RefTerm(e, p, m) ==
    LET r == RefFactor(e, p, m) IN
    IF r.ok THEN RefTermRest(e, r.pos, m, r.term) ELSE Fail

RefExprRest(e, p, m, acc) ==
    IF p <= Len(e) /\ e[p].kind \in {"Plus", "Minus"}
    THEN LET r == RefTerm(e, p + 1, m) IN
         IF r.ok
         THEN RefExprRest(e, r.pos, m,
                          <<IF e[p].kind = "Plus" THEN "+" ELSE "-", acc, r.term>>)
         ELSE Fail
    ELSE Parsed(p, acc)

RefExpr(e, p, m) ==
    LET r == RefTerm(e, p, m) IN
    IF r.ok THEN RefExprRest(e, r.pos, m, r.term) ELSE Fail

\* e is one whole expression of the grammar
Valid(e) == LET r == RefExpr(e, 1, EmptyMap) IN r.ok /\ r.pos = Len(e) + 1
RefValue(e, m) == RefExpr(e, 1, m).term

\* the kinds after which a '-' is a unary minus
OperandStarters == {"Plus", "Minus", "Star", "Slash", "LParen", "Comma"}
UnaryAt(e, k) ==
    e[k].kind = "Minus" /\ (k = 1 \/ e[k - 1].kind \in OperandStarters)
Unaries(e) == {k \in 1..Len(e) : UnaryAt(e, k)}

\* the number a term of literals denotes (terms without division)
RECURSIVE Interp(_)
Interp(t) ==
    CASE t[1] = "lit" -> t[2]
      [] t[1] = "neg" -> 0 - Interp(t[2])
      [] t[1] = "+" -> Interp(t[2]) + Interp(t[3])
      [] t[1] = "-" -> Interp(t[2]) - Interp(t[3])
      [] t[1] = "*" -> Interp(t[2]) * Interp(t[3])

\* the pipelines have stored the value of the statement
TsexprStored == pc \in {"execute_assignment", "expr_compile", "eval_rpn", "done"}
                    /\ thrownP = ""
ExprStored == pc = "done" /\ thrownE = ""

\* ----------------------------------------------------------------- C8

\* C8: for every valid expression E over variables, literals, parentheses
\* and binary + - * /, `t = E` compiles, and executing it stores the value
\* of the reference evaluator (* and / before + and -, equal precedence left
\* to right); `y = x * 3 - 4` with x = 10 stores 26.
C8_PrecedenceAndAssociativity ==
    /\ HeadOk /\ Valid(Expr) /\ Unaries(Expr) = {} =>
          /\ TsexprReturned => thrownP # "ParseError"
          /\ TsexprStored => backend[input[1].text].term = RefValue(Expr, backend0)
          /\ pc = "done" => thrownE # "ParseError"
          /\ ExprStored =>
                /\ Len(eval.st) = 1
                /\ eval.st[1].term = RefValue(Expr, env0)
                /\ env[input[1].text] = Stored(eval.st[1])
    /\ input = In_ScalarsOnly /\ TsexprReturned =>
          thrownP = "" /\ (TsexprStored => Interp(backend["y"].term) = 26)

\* a - b - c is stored as (a - b) - c by both pipelines
C8_Witness ==
    /\ pc = "done"
    /\ input = In_SubSub
    /\ TsexprStored /\ ExprStored
    /\ backend["z"].term =
          <<"-", <<"-", TestVars["a"].term, TestVars["b"].term>>, TestVars["c"].term>>
    /\ env["z"] = backend["z"]

\* ----------------------------------------------------------------- C9

\* C9: a '-' is compiled as Neg exactly in expect-operand position (start,
\* after an operator, after '(' or ','), else as binary Minus; Neg binds
\* tighter than every binary operator and groups right to left:
\* `a * -b` gives a b Neg Mul, `-(a + b) * 2` gives a b Add Neg 2 Mul,
\* `- - a` gives a Neg Neg.
C9_UnaryMinus ==
    /\ pc = "to_rpn" /\ parser.t.kind # "End" =>
          (parser.expect_operand <=>
              (parser.i_ = 3 \/ input[parser.i_ - 1].kind \in OperandStarters))
    /\ pc = "expr_compile" /\ CmpNextIndex <= Len(input) =>
          (cmp.expect_operand <=>
              (CmpNextIndex = 3 \/ input[CmpNextIndex - 1].kind \in OperandStarters))
    /\ TsexprCompiled =>
          /\ Count(parser.output, {"Neg"}) = Cardinality(Unaries(Expr))
          /\ Count(parser.output, {"Neg", "Minus"}) = Count(Expr, {"Minus"})
    /\ ExprCompiled =>
          /\ Count(compiled.rpn, {"Neg"}) = Cardinality(Unaries(Expr))
          /\ Count(compiled.rpn, {"Neg", "Minus"}) = Count(Expr, {"Minus"})
    /\ HeadOk /\ Valid(Expr) =>
          /\ TsexprReturned => thrownP # "ParseError"
          /\ TsexprStored => backend[input[1].text].term = RefValue(Expr, backend0)
          /\ pc = "done" => thrownE # "ParseError"
          /\ ExprStored => eval.st[1].term = RefValue(Expr, env0)
    /\ input = In_MulNeg =>
          /\ TsexprReturned => Shape(parser.output) =
                Shape(<<Ident("a"), Ident("b"), Tok("Neg", "", 0), Star>>)
          /\ pc \in {"eval_rpn", "done"} => Shape(compiled.rpn) =
                Shape(<<Ident("a"), Ident("b"), Tok("Neg", "", 0), Star>>)
    /\ input = In_NegParen =>
          /\ TsexprReturned => Shape(parser.output) =
                Shape(<<Ident("a"), Ident("b"), Plus, Tok("Neg", "", 0),
                        Number(2), Star>>)
          /\ pc \in {"eval_rpn", "done"} => Shape(compiled.rpn) =
                Shape(<<Ident("a"), Ident("b"), Plus, Tok("Neg", "", 0),
                        Number(2), Star>>)
    /\ input = In_NegNeg =>
          /\ TsexprReturned => Shape(parser.output) =
                Shape(<<Ident("a"), Tok("Neg", "", 0), Tok("Neg", "", 0)>>)
          /\ pc \in {"eval_rpn", "done"} => Shape(compiled.rpn) =
                Shape(<<Ident("a"), Tok("Neg", "", 0), Tok("Neg", "", 0)>>)

\* `a * -b`: the '-' after '*' became Neg and applies to b alone
C9_Witness ==
    /\ pc = "done"
    /\ input = In_MulNeg
    /\ ExprStored
    /\ env["z"].term = <<"*", TestVars["a"].term, <<"neg", TestVars["b"].term>>>>
    /\ Count(compiled.rpn, {"Neg"}) = 1 /\ Count(compiled.rpn, {"Minus"}) = 0

\* ----------------------------------------------------------------- C10

\* C10: whenever a pipeline raises an error (ParseError from compile, or any
\* error of the evaluation before the terminal store) its variable store is
\* what it was before the call: the target is neither created nor changed.
C10_FailureLeavesStoreUntouched ==
    /\ thrownP # "" => backend = backend0
    /\ thrownE # "" => env = env0
    /\ pc \in {"compile", "to_rpn"} => backend = backend0
    /\ pc \in {"execute_assignment", "expr_compile"} => env = env0

\* `z = a + missing`: both pipelines fail in the evaluation, z is not created
C10_Witness ==
    /\ pc = "done"
    /\ input = In_Missing
    /\ thrownP = "runtime_error" /\ thrownE = "EvalError"
    /\ "z" \notin DOMAIN backend /\ "z" \notin DOMAIN env
    /\ exec.st # <<>> /\ eval.st # <<>>

\* ----------------------------------------------------------------- C11

\* the instruction / postfix token at which an execution stopped with an
\* error
TsexprFailedAt(ops) ==
    /\ TsexprReturned /\ thrownP \notin {"", "ParseError"}
    /\ exec.ip <= Len(program) /\ program[exec.ip].op \in ops
ExprFailedAt(kinds) ==
    /\ pc = "done" /\ thrownE \notin {"", "ParseError"}
    /\ eval.k <= Len(compiled.rpn) /\ compiled.rpn[eval.k].kind \in kinds

\* C11: an execution that stops at the load of a variable absent from the
\* environment (PushVar in Program::execute, Ident in eval_rpn) stops with
\* an EvalError, in both pipelines.
C11_UnknownVariableIsEvalError ==
    /\ TsexprFailedAt({"PushVar"}) =>
          /\ program[exec.ip].text \notin DOMAIN backend0
          /\ thrownP = "EvalError"
    /\ ExprFailedAt({"Ident"}) =>
          /\ compiled.rpn[eval.k].text \notin DOMAIN env0
          /\ thrownE = "EvalError"

\* ----------------------------------------------------------------- C12

\* m2 is m1 with at most the binding of name t added or changed
OnlyChanged(m1, m2, t) ==
    /\ DOMAIN m2 = DOMAIN m1 \cup {t}
    /\ \A x \in DOMAIN m1 \ {t} : m2[x] = m1[x]

\* C12: a successful execution of `t = E` binds t and leaves every other
\* variable as it was: none is added, removed or changed; until the store
\* the environment is the initial one.
C12_OnlyTargetChanges ==
    /\ TsexprStored => OnlyChanged(backend0, backend, input[1].text)
    /\ pc = "execute" /\ exec.ip <= Len(program) => backend = backend0
    /\ ExprStored => OnlyChanged(env0, env, input[1].text)
    /\ pc = "eval_rpn" => env = env0

\* `z = a` over a = [1,2,3], z = [9]: z is rebound, a is kept
C12_Witness ==
    /\ pc = "done"
    /\ input = Target \o <<Ident("a")>>
    /\ backend0 = SmallVars /\ env0 = SmallVars
    /\ TsexprStored /\ ExprStored
    /\ backend["z"] = SmallVars["a"] /\ backend["a"] = SmallVars["a"]
    /\ env["z"] = SmallVars["a"] /\ env["a"] = SmallVars["a"]
    /\ backend0["z"] # backend["z"]

\* ----------------------------------------------------------------- C13

\* a postfix token of tsexpr as the ts::expr token of the same meaning: the
\* argc a Func token carries in `number` is the arity
AsExprToken(t) ==
    IF t.kind = "Func"
    THEN [kind |-> "Func", text |-> t.text, number |-> 0, arity |-> t.number]
    ELSE [kind |-> t.kind, text |-> t.text, number |-> t.number, arity |-> 0]

\* ts::expr tokens with the number of a Func token, which nothing reads,
\* cleared
Plain(t) == IF t.kind = "Func" THEN [t EXCEPT !.number = 0] ELSE t

\* C13: on every input the two compile functions both throw ParseError or
\* both return, and then with the same target and the same postfix sequence.
C13_PipelinesAgree ==
    pc = "done" =>
        /\ (thrownP = "ParseError") <=> (thrownE = "ParseError")
        /\ thrownP # "ParseError" /\ thrownE # "ParseError" =>
              /\ compiled.target = Last(program).text
              /\ [k \in 1..Len(compiled.rpn) |-> Plain(compiled.rpn[k])]
                    = [k \in 1..Len(parser.output) |-> AsExprToken(parser.output[k])]

\* ----------------------------------------------------------------- C14

\* <<kind, name, arity>> of each postfix token, of either pipeline
PostfixOfTsexpr(seq) ==
    [k \in 1..Len(seq) |->
        <<seq[k].kind, seq[k].text, IF seq[k].kind = "Func" THEN seq[k].number ELSE 0>>]
PostfixOfExpr(seq) ==
    [k \in 1..Len(seq) |-> <<seq[k].kind, seq[k].text, seq[k].arity>>]

\* both compile functions return, with the postfix sequence expected
CompilesTo(expected) ==
    /\ TsexprReturned =>
          thrownP # "ParseError" /\ PostfixOfTsexpr(parser.output) = expected
    /\ pc = "done" => thrownE # "ParseError"
    /\ ExprCompiled => PostfixOfExpr(compiled.rpn) = expected

\* C14: calls nest: `f(g(x))`, `f(g(x), y)` and `f(g(x), h(y, z))` compile,
\* the inner Call comes before the enclosing one, and each arity is the
\* number of commas directly inside the call's own parentheses plus one.
C14_NestedCallsCompose ==
    /\ input = In_NestedCall =>
          CompilesTo(<< <<"Ident", "x", 0>>, <<"Func", "g", 1>>, <<"Func", "f", 1>> >>)
    /\ input = In_NestedCallThenArg =>
          CompilesTo(<< <<"Ident", "x", 0>>, <<"Func", "g", 1>>,
                        <<"Ident", "y", 0>>, <<"Func", "f", 2>> >>)
    /\ input = In_NestedCalls =>
          CompilesTo(<< <<"Ident", "x", 0>>, <<"Func", "g", 1>>,
                        <<"Ident", "y", 0>>, <<"Ident", "z", 0>>,
                        <<"Func", "h", 2>>, <<"Func", "f", 2>> >>)

\* ----------------------------------------------------------------- C15

\* eval_rpn has returned a scalar / a series to execute_assignment
ScalarResult == ExprStored /\ eval.st[1].shape = "double"
SeriesResult == ExprStored /\ eval.st[1].shape = "Series"

Stores(p) == {k \in 1..Len(p) : p[k].op = "Store"}

\* C19: a Program of tsexpr::compile has one Store, at its end, naming the
\* leading identifier; so an execution changes the backend's variables in
\* one step only, the step of the last instruction, and once they are
\* changed no instruction is left to execute.
C19_StoreIsLastAndOnly ==
    /\ [](TsexprCompiled =>
            /\ Stores(program) = {Len(program)}
            /\ Last(program).text = input[1].text)
    /\ [](TsexprReturned /\ backend # backend0 =>
            exec.ip = Len(program) + 1 /\ thrownP = "")
    /\ [][backend' # backend =>
            /\ pc = "execute"
            /\ exec.ip = Len(program)
            /\ program[exec.ip].op = "Store"
            /\ exec'.ip = Len(program) + 1]_vars

\* `z = a + b - c / 2`: seven instructions, then the Store
C19_Witness ==
    /\ input = In_Basic
    /\ TsexprStored
    /\ Len(program) = 8 /\ exec.ip = 9
    /\ backend # backend0

\* ----------------------------------------------------------------- C17

\* both executions of SpecTwo have ended
BothEnded == pc = "two" /\ \A i \in Runs : runs[i].pc # "execute"

C18_ConcurrentExecutionsAreIndependent ==
    /\ [](pc = "two" => \A i \in Runs :
            runs[i].pc # "execute" =>
                /\ runs[i].vars = execute(program, 1, <<>>, backend0).vars
                /\ runs[i].thrown = execute(program, 1, <<>>, backend0).thrown)
    /\ [](pc = "two" => \A i \in Runs :
            runs[i].pc = "execute" =>
                execute(program, runs[i].ip, runs[i].st, runs[i].vars)
                    = execute(program, 1, <<>>, backend0))
    /\ [][pc = "two" =>
            /\ program' = program
            /\ \A i \in Runs : runs'[i] # runs[i] =>
                  \A j \in Runs \ {i} : runs'[j] = runs[j]]_vars

\* `z = a + b - c / 2`: one execution has stored z while the other is in
\* the middle of the expression, with two values on its stack
C18_Witness ==
    /\ input = In_Basic
    /\ pc = "two"
    /\ runs[1].pc = "returned" /\ "z" \in DOMAIN runs[1].vars
    /\ runs[2].pc = "execute" /\ runs[2].ip = 5 /\ Len(runs[2].st) = 2
    /\ "z" \notin DOMAIN runs[2].vars

\* ----------------------------------------------------------------- C20

\* the calls of SpecLexer so far, and those that returned a token
Hist == IF pc = "lexer" THEN lx.hist ELSE <<>>
Returned(k) == Hist[k].what = ""
NoThrow == \A k \in 1..Len(Hist) : Returned(k)

\* what n calls of next() deliver on a lexer that nothing else calls
RECURSIVE Delivers(_, _, _)
Delivers(text, i, n) ==
    IF n = 0 THEN <<>>
    ELSE LET r == Once(LexerNextChars(text, i)) IN
         <<[tok |-> r.tok, what |-> r.what]>> \o Delivers(text, r.i_, n - 1)

IsNext(h) == h.call = "next"
DeliveredByNext ==
    LET calls == SelectSeq(Hist, IsNext) IN
    [k \in 1..Len(calls) |-> [tok |-> calls[k].tok, what |-> calls[k].what]]

\* C20: once a call has returned End every later call returns End and
\* leaves the position where it was; a call after a peek() returns the
\* token the peek() returned, without moving the position; and as long as
\* no call throws, the tokens next() delivers are those of the text in
\* order, however many peek() calls come in between.
C20_EndIsIdempotentAndPeekKeeps ==
    /\ \A j \in 1..Len(Hist), k \in 1..Len(Hist) :
          j < k /\ Returned(j) /\ Hist[j].tok.kind = "End" =>
              /\ Returned(k) /\ Hist[k].tok.kind = "End"
              /\ Hist[k].i_ = Hist[j].i_
    /\ \A k \in 1..(Len(Hist) - 1) :
          Hist[k].call = "peek" /\ Returned(k) =>
              /\ Returned(k + 1) /\ Hist[k + 1].tok = Hist[k].tok
              /\ Hist[k + 1].i_ = Hist[k].i_
    /\ NoThrow => DeliveredByNext = Delivers(lx.text, 0, Len(DeliveredByNext))

\* on the text `a `: peek, next, next, peek give a, a, End, End, and the
\* position stays after the blank
C20_Witness ==
    /\ pc = "lexer"
    /\ lx.class = "ts::expr" /\ lx.text = <<"a", " ">>
    /\ [k \in 1..Len(Hist) |-> <<Hist[k].call, Hist[k].tok.kind, Hist[k].i_>>]
          = << <<"peek", "Ident", 1>>, <<"next", "Ident", 1>>,
               <<"next", "End", 2>>, <<"peek", "End", 2>> >>

\* ----------------------------------------------------------------- C22

\* Program::execute is about to execute an instruction of one of ops
AtInstr(ops) ==
    pc = "execute" /\ exec.ip <= Len(program) /\ program[exec.ip].op \in ops

\* the n values on top of stack st, the deepest first
TopArgs(st, n) == [k \in 1..n |-> st[Len(st) - n + k]]

\* C22: a Call(name, n) on fewer than n values fails with EvalError and
\* leaves stack and backend as they are; on n values or more it takes the
\* top n off, gives them to backend.call deepest first, and when the call
\* returns pushes its one result, so that the depth changes by 1 - n.
C22_CallTakesArgsInOrder ==
    [][AtInstr({"Call"}) =>
         LET ins == program[exec.ip]
             n == ins.argc
             st == exec.st
         IN  IF Len(st) < n
             THEN /\ thrownP' = "EvalError"
                  /\ exec'.st = st
                  /\ backend' = backend
             ELSE LET r == call(ins.text, TopArgs(st, n)) IN
                  /\ backend' = backend
                  /\ IF r.throws
                     THEN /\ thrownP' = "runtime_error"
                          /\ exec'.st = SubSeq(st, 1, Len(st) - n)
                     ELSE /\ thrownP' = ""
                          /\ exec'.st = Append(SubSeq(st, 1, Len(st) - n), r.v)
                          /\ Len(exec'.st) = Len(st) + 1 - n
                          /\ ins.text = "sumproduct" =>
                                Last(exec'.st).term =
                                   <<"sumproduct", st[Len(st) - 1].term, st[Len(st)].term>>
    ]_vars

\* sumproduct(a, b) of the tests has been called on a below b
C22_Witness ==
    /\ input = In_Sumproduct
    /\ pc = "execute" /\ exec.ip = 4
    /\ program[3] = Instr("Call", "sumproduct", 0, 2)
    /\ Len(exec.st) = 1
    /\ exec.st[1].term = <<"sumproduct", TestVars["a"].term, TestVars["b"].term>>

\* the call of two arguments on one value has failed
C22_Underflow ==
    /\ input = In_TrailingComma
    /\ pc # "execute" /\ exec.ip = 2 /\ Len(exec.st) = 1
    /\ thrownP = "EvalError"

\* ----------------------------------------------------------------- C23

\* eval_rpn is about to evaluate a token of one of kinds
AtToken(kinds) ==
    pc = "eval_rpn" /\ eval.k <= Len(compiled.rpn) /\ compiled.rpn[eval.k].kind \in kinds

\* the value of `a op b` when the operation returns one: the operator applied
\* to a as the left and b as the right operand
AppliedTo(v, op, a, b) == v.term = <<OpSymbol(op), a.term, b.term>>

\* C23: a binary instruction on two values or more replaces the top two by
\* the operation on the lower one as left and the top one as right operand
\* (or fails in the operation); so `z = a - b - c` stores (a - b) - c and
\* `z = a / b * c` stores (a / b) * c.  The same holds for eval_rpn.
C23_BinaryOperandOrder ==
    /\ [][AtInstr({"Add", "Sub", "Mul", "Div"}) /\ Len(exec.st) >= 2 =>
            LET st == exec.st
                a == st[Len(st) - 1]
                b == st[Len(st)]
            IN  \/ thrownP' = "runtime_error" /\ a.shape = "Series" /\ b.shape = "Series"
                      /\ a.n # b.n
                \/ /\ thrownP' = ""
                   /\ Len(exec'.st) = Len(st) - 1
                   /\ SubSeq(exec'.st, 1, Len(st) - 2) = SubSeq(st, 1, Len(st) - 2)
                   /\ AppliedTo(Last(exec'.st), program[exec.ip].op, a, b)]_vars
    /\ [][AtToken({"Plus", "Minus", "Star", "Slash"}) /\ Len(eval.st) >= 2 =>
            LET st == eval.st
                a == st[Len(st) - 1]
                b == st[Len(st)]
            IN  \/ thrownE' = "runtime_error" /\ a.shape = "Series" /\ b.shape = "Series"
                      /\ a.n # b.n
                \/ /\ thrownE' = ""
                   /\ Len(eval'.st) = Len(st) - 1
                   /\ SubSeq(eval'.st, 1, Len(st) - 2) = SubSeq(st, 1, Len(st) - 2)
                   /\ AppliedTo(Last(eval'.st), compiled.rpn[eval.k].kind, a, b)]_vars
    /\ [](pc = "done" /\ input = In_SubSub =>
            /\ backend["z"].term =
                 <<"-", <<"-", TestVars["a"].term, TestVars["b"].term>>, TestVars["c"].term>>
            /\ env["z"].term = backend["z"].term)
    /\ [](pc = "done" /\ input = In_DivMul =>
            /\ backend["z"].term =
                 <<"*", <<"/", TestVars["a"].term, TestVars["b"].term>>, TestVars["c"].term>>
            /\ env["z"].term = backend["z"].term)

\* `z = a - b - c` has just executed its first Sub: a - b is on the stack
C23_Witness ==
    /\ input = In_SubSub
    /\ pc = "execute" /\ exec.ip = 4 /\ program[3].op = "Sub"
    /\ exec.st = <<Series(3, <<"-", TestVars["a"].term, TestVars["b"].term>>)>>

\* ----------------------------------------------------------------- C24

\* eval_rpn has left its loop
AtEvalEnd == pc = "eval_rpn" /\ eval.k > Len(compiled.rpn)

\* C24: when the values left for the terminal store are not exactly one,
\* none or more than one, the execution fails with EvalError and stores
\* nothing, in Program::execute and in execute_assignment.
C24_StoreNeedsExactlyOneValue ==
    /\ [][AtInstr({"Store"}) /\ Len(exec.st) # 1 =>
            thrownP' = "EvalError" /\ backend' = backend]_vars
    /\ [][AtEvalEnd /\ Len(eval.st) # 1 =>
            thrownE' = "EvalError" /\ env' = env]_vars

\* ----------------------------------------------------------------- C25

\* the statement `z = name(operand)` or `z = name(operand, operand)`
IsPlainCall ==
    /\ HeadOk
    /\ Len(Expr) \in {4, 6}
    /\ Expr[1].kind = "Ident" /\ Expr[2].kind = "LParen"
    /\ Expr[Len(Expr)].kind = "RParen"
    /\ Expr[3].kind \in {"Ident", "Number"}
    /\ Len(Expr) = 6 => Expr[4].kind = "Comma" /\ Expr[5].kind \in {"Ident", "Number"}

\* C25: eval_rpn on a Func token whose name is not sumproduct, or whose
\* arity is not 2, ends in EvalError with env as it was; ts::expr::compile
\* does not look at the name: `z = name(args)` compiles to the arguments
\* followed by the Func token of that name, whatever the name is.
C25_UnknownFunctionFailsAtEvaluation ==
    /\ [][AtToken({"Func"}) /\ (compiled.rpn[eval.k].text # "sumproduct"
                                  \/ compiled.rpn[eval.k].arity # 2) =>
            thrownE' = "EvalError" /\ pc' = "done" /\ env' = env /\ env' = env0]_vars
    /\ [](pc = "done" /\ IsPlainCall =>
            /\ thrownE # "ParseError"
            /\ Len(compiled.rpn) = Len(Expr) \div 2
            /\ Last(compiled.rpn).kind = "Func"
            /\ Last(compiled.rpn).text = Expr[1].text
            /\ Last(compiled.rpn).arity = Len(compiled.rpn) - 1)

\* sumproduct(a) has failed in apply_function
C25_WrongArity ==
    /\ input = In_SumproductOne
    /\ pc = "done" /\ thrownE = "EvalError"
    /\ eval.k = 2 /\ Len(eval.st) = 0
    /\ env = env0

\* `z = f(g(x), y)` compiled, and the evaluation failed at g
C25_Witness ==
    /\ input = In_NestedCallThenArg
    /\ pc = "done" /\ thrownE = "EvalError"
    /\ eval.k = 2 /\ compiled.rpn[2].kind = "Func" /\ compiled.rpn[2].text = "g"
    /\ env = env0

\* ----------------------------------------------------------------- C26

\* the positions of the function markers on an operator stack
FuncsOn(ops) == {k \in 1..Len(ops) : ops[k].kind = "Func"}
\* the number of '(' above the topmost function marker
ParensAboveMarker(ops) ==
    LET m == CHOOSE k \in FuncsOn(ops) : \A j \in FuncsOn(ops) : j <= k
    IN  Cardinality({k \in (m + 1)..Len(ops) : ops[k].kind = "LParen"})

\* C26: while ts::expr::compile runs, there is one function marker on the
\* operator stack for each frame of func_stack, and the top frame's depth
\* is the number of '(' above the topmost marker, at least 1; compile never
\* throws "Internal error: function context without function token" and
\* never sees a depth below 0.
C26_DepthCountsOpenParens ==
    /\ cmp.what = "" =>
          /\ Cardinality(FuncsOn(cmp.opstack)) = Len(cmp.func_stack)
          /\ cmp.func_stack # <<>> =>
                /\ Last(cmp.func_stack).depth = ParensAboveMarker(cmp.opstack)
                /\ Last(cmp.func_stack).depth >= 1
    /\ cmp.what # "Internal error: function context without function token"
    /\ \A k \in 1..Len(cmp.func_stack) : cmp.func_stack[k].depth >= 0

\* in `z = f(g(x), y)` the ')' of g has brought g's depth to 0 and taken its
\* marker off; f's frame is on top again, one '(' above its marker
C26_Witness ==
    /\ input = In_NestedCallThenArg
    /\ pc = "expr_compile" /\ cmp.what = ""
    /\ Len(cmp.func_stack) = 1 /\ Last(cmp.func_stack).depth = 1
    /\ Shape(cmp.opstack) = << <<"Func", "f", 0>>, <<"LParen", "", 0>> >>
    /\ Len(cmp.output) = 2 /\ cmp.output[2].kind = "Func" /\ cmp.output[2].text = "g"

\* a '(' inside an argument list: depth 2
C26_Nested ==
    /\ pc = "expr_compile" /\ cmp.what = ""
    /\ cmp.func_stack # <<>> /\ Last(cmp.func_stack).depth = 2

\* ----------------------------------------------------------------- C27

\* the instruction a postfix token of each kind is lowered to
OpOfKind(k) ==
    CASE k = "Number" -> "PushNum" [] k = "Ident" -> "PushVar" [] k = "Neg" -> "Neg"
      [] k = "Plus" -> "Add" [] k = "Minus" -> "Sub" [] k = "Star" -> "Mul"
      [] k = "Slash" -> "Div" [] k = "Func" -> "Call"

\* C27: the postfix output of to_rpn holds only Number, Ident, Plus, Minus,
\* Star, Slash, Neg and Func tokens at every moment; compile never throws
\* "Unsupported token in RPN compilation"; and a Program that compile
\* returns has one instruction per postfix token, of the token's kind and
\* in the token's place, and the Store after them.
C27_LoweringIsOneToOne ==
    /\ \A k \in 1..Len(parser.output) :
          parser.output[k].kind \in
             {"Number", "Ident", "Plus", "Minus", "Star", "Slash", "Neg", "Func"}
    /\ parser.what # "Unsupported token in RPN compilation"
    /\ TsexprCompiled =>
          /\ Len(program) = Len(parser.output) + 1
          /\ \A k \in 1..Len(parser.output) :
                program[k].op = OpOfKind(parser.output[k].kind)
          /\ Last(program).op = "Store"

\* `z = -(a + b) * 2` has been compiled: six tokens, seven instructions
C27_Witness ==
    /\ input = In_NegParen
    /\ pc = "execute" /\ exec.ip = 1
    /\ Len(parser.output) = 6 /\ Len(program) = 7
    /\ [k \in 1..7 |-> program[k].op]
          = <<"PushVar", "PushVar", "Add", "Neg", "PushNum", "Mul", "Store">>

\* ----------------------------------------------------------------- C28

\* an operand: the name of a variable, or "" and the number
Operand(name, number) == <<name, number>>

\* the operands of a token sequence, in order: the numbers, and the
\* identifiers that no '(' follows (those are function names)
RECURSIVE OperandsFrom(_, _)
OperandsFrom(e, k) ==
    IF k > Len(e) THEN <<>>
    ELSE IF e[k].kind = "Number"
        THEN <<Operand("", e[k].number)>> \o OperandsFrom(e, k + 1)
    ELSE IF e[k].kind = "Ident" /\ ~(k < Len(e) /\ e[k + 1].kind = "LParen")
        THEN <<Operand(e[k].text, 0)>> \o OperandsFrom(e, k + 1)
    ELSE OperandsFrom(e, k + 1)

\* the operands a Program pushes, in order
IsPush(ins) == ins.op \in {"PushVar", "PushNum"}
Pushed(p) ==
    LET ps == SelectSeq(p, IsPush) IN
    [k \in 1..Len(ps) |-> IF ps[k].op = "PushNum" THEN Operand("", ps[k].number)
                          ELSE Operand(ps[k].text, 0)]

\* the operands of a postfix token sequence, in order
IsOperandToken(t) == t.kind \in {"Ident", "Number"}
OperandsOfRpn(rpn) ==
    LET ts == SelectSeq(rpn, IsOperandToken) IN
    [k \in 1..Len(ts) |-> IF ts[k].kind = "Number" THEN Operand("", ts[k].number)
                          ELSE Operand(ts[k].text, 0)]

\* C28: the PushVar and PushNum instructions of a Program that
\* tsexpr::compile returns, and the Ident and Number tokens of a postfix
\* that ts::expr::compile returns, are the identifiers and numbers of the
\* source expression in their order in the source.
C28_OperandsKeepSourceOrder ==
    /\ TsexprCompiled => Pushed(program) = OperandsFrom(Expr, 1)
    /\ ExprCompiled => OperandsOfRpn(compiled.rpn) = OperandsFrom(Expr, 1)

\* `z = a + b - c / 2` compiled by both: a, b, c, 2
C28_Witness ==
    /\ input = In_Basic
    /\ pc = "eval_rpn" /\ eval.k = 1
    /\ Pushed(program) = << <<"a", 0>>, <<"b", 0>>, <<"c", 0>>, <<"", 2>> >>
    /\ OperandsOfRpn(compiled.rpn) = Pushed(program)
    /\ [k \in 1..Len(compiled.rpn) |-> compiled.rpn[k].kind]
          = <<"Ident", "Ident", "Plus", "Ident", "Number", "Slash", "Minus">>

\* ----------------------------------------------------------------- C29

\* C29: whenever to_rpn is at the head of its loop, the operator stack
\* holds one Func token for each frame of fnstack, and directly above each
\* Func token there is a '('; to_rpn never throws "Internal error: function
\* close with no frame", and never finds a frame left once the drain has
\* emptied the operator stack.
C29_FuncTokensMatchFrames ==
    /\ pc = "to_rpn" =>
          /\ Cardinality(FuncsOn(parser.opstack)) = Len(parser.fnstack)
          /\ \A k \in FuncsOn(parser.opstack) :
                k < Len(parser.opstack) /\ parser.opstack[k + 1].kind = "LParen"
    /\ parser.what # "Internal error: function close with no frame"
    /\ ~(parser.what = "Mismatched function call" /\ parser.opstack = <<>>)

\* in `z = f(g(x), h(y, z))` the loop is inside g(: two markers, two frames
C29_Witness ==
    /\ input = In_NestedCalls
    /\ pc = "to_rpn"
    /\ [k \in 1..Len(parser.opstack) |-> parser.opstack[k].kind]
          = <<"Func", "LParen", "Func", "LParen">>
    /\ [k \in 1..Len(parser.fnstack) |-> parser.fnstack[k].name] = <<"f", "g">>

\* ----------------------------------------------------------------- C21

\* where the k-th call of next() started, and the first position from there
\* that holds no blank (the length of the text when there is none)
StartOf(k) == IF k = 1 THEN 0 ELSE lx.hist[k - 1].i_
FirstNonBlank(text, p) ==
    CHOOSE q \in p..Len(text) :
        /\ q = Len(text) \/ text[q + 1] # " "
        /\ \A r \in p..(q - 1) : text[r + 1] = " "
\* the backquotes after the one at position q + 1
Closers(text, q) == {j \in (q + 2)..Len(text) : text[j] = Backquote}
Least(S) == CHOOSE j \in S : \A i \in S : j <= i

\* C21: a call of next() that finds a backquote returns, when another
\* backquote follows, one Ident token whose text is the characters between
\* the two, whatever they are, and leaves the position after the second;
\* when none follows it throws ParseError and both compile functions end in
\* ParseError.  The token is the one an unquoted identifier of that name
\* gives: `x y` = `a b` - c binds "x y" to the difference of "a b" and c in
\* both pipelines, and z = `a b` + c / 2 reads "a b".
C21_BacktickIdentifier ==
    /\ \A k \in 1..Len(lx.hist) :
          LET q == FirstNonBlank(lx.text, StartOf(k)) IN
          q < Len(lx.text) /\ lx.text[q + 1] = Backquote =>
             IF Closers(lx.text, q) = {}
             THEN /\ lx.hist[k].what = "Unterminated backtick identifier"
                  /\ pc = "done" /\ thrownP = "ParseError" /\ thrownE = "ParseError"
             ELSE LET j == Least(Closers(lx.text, q)) IN
                  /\ lx.hist[k].what = ""
                  /\ lx.hist[k].tok.kind = "Ident"
                  /\ lx.hist[k].tok.text = SubSeq(lx.text, q + 2, j - 1)
                  /\ lx.hist[k].i_ = j
                  /\ input[k] = Ident(NameOf(SubSeq(lx.text, q + 2, j - 1)))
    /\ pc = "done" /\ lx.text = T_BacktickTarget =>
          /\ thrownP = "" /\ thrownE = ""
          /\ backend = store_var(TextVars, "x y",
                Series(3, <<"-", TextVars["a b"].term, TextVars["c"].term>>))
          /\ env = backend
    /\ pc = "done" /\ lx.text = T_Backtick =>
          /\ thrownP = "" /\ thrownE = ""
          /\ backend = store_var(TextVars, "z",
                Series(3, <<"+", TextVars["a b"].term,
                            <<"/", TextVars["c"].term, <<"lit", 2>> >> >>))
          /\ env = backend

\* `x y` = `a b` - c has been executed by both pipelines
C21_Witness ==
    /\ lx.text = T_BacktickTarget
    /\ pc = "done"
    /\ Shape(input) = << <<"Ident", "x y", 0>>, <<"Assign", "", 0>>,
                         <<"Ident", "a b", 0>>, <<"Minus", "", 0>>, <<"Ident", "c", 0>> >>
    /\ "x y" \in DOMAIN backend /\ "x y" \in DOMAIN env

\* a quote that is not closed has ended both in ParseError
C21_Unterminated ==
    /\ lx.text = T_Unterminated
    /\ pc = "done" /\ thrownP = "ParseError" /\ Len(input) = 4

\* ----------------------------------------------------------------- C30

\* tsexpr::compile and ts::expr::compile have ended, in a result or a throw
CompileEnded ==
    /\ pc \notin {"lex", "compile", "to_rpn"}
    /\ thrownP = "ParseError" \/ (program # <<>> /\ Last(program).op = "Store")
ExprCompileEnded ==
    \/ pc = "eval_rpn"
    \/ pc = "done" /\ (thrownE = "ParseError" \/ cmp.opstack = <<>>)

\* C30: a call of the lexer throws, or leaves the position further on, or
\* returns End with the position at the end of the text; an iteration of
\* the loop of to_rpn, and of the loop of ts::expr::compile, that does not
\* throw leaves fewer tokens to read, and emits at most the operator stack
\* it found and one token more; and each compile ends, in a program or in
\* ParseError.
C30_CompileTerminates ==
    /\ [][pc = "lex" =>
            \/ Last(lx'.hist).what # ""
            \/ lx'.lex.i_ > lx.lex.i_
            \/ Last(lx'.hist).tok.kind = "End" /\ lx'.lex.i_ = Len(lx.text)]_vars
    /\ [][pc = "to_rpn" /\ pc' = "to_rpn" =>
            /\ RpnNextIndex' > RpnNextIndex
            /\ Len(parser'.output) <= Len(parser.output) + Len(parser.opstack) + 1]_vars
    /\ [][pc = "expr_compile" /\ pc' = "expr_compile" =>
            /\ CmpNextIndex' > CmpNextIndex
            /\ Len(cmp'.output) <= Len(cmp.output) + Len(cmp.opstack) + 1]_vars
    /\ <>(CompileEnded /\ ExprCompileEnded)

\* z = `a b` + c / 2: both compile functions have returned, seven tokens read
C30_Witness ==
    /\ lx.text = T_Backtick
    /\ pc = "eval_rpn" /\ eval.k = 1
    /\ Len(lx.hist) = 8 /\ Len(input) = 7
    /\ Len(program) = 6 /\ Len(compiled.rpn) = 5

====
